---- MODULE Spec2Model ----
(***************************************************************************)
(* Monte Carlo propagation engine of the What If Explorer: topological     *)
(* sort, per-node sample production, circuit breakers, variance clamping   *)
(* and KDE summaries (src/lib/inference.ts, src/lib/distributions.ts),     *)
(* together with the model intake of src/lib/llm.ts.                       *)
(*                                                                         *)
(* JavaScript numbers are modelled as fixed-point integers with Scale      *)
(* units per 1.0, extended with the three IEEE specials NaN, +Infinity and *)
(* -Infinity.  Arithmetic follows the IEEE rules for the specials and      *)
(* saturates to an infinity when a result leaves the finite range.         *)
(***************************************************************************)
EXTENDS Integers, Sequences, FiniteSets, TLC

\* const x = e; ...: the rest F of the block, applied to the value of e.
\* The value of e is computed before the block is entered, as the
\* statements of the block are executed in order.
Let(e, F(_)) == CHOOSE y \in {F(x) : x \in {e}} : TRUE

\* ------------------------------------------------------------------------
\* JavaScript numbers
\* ------------------------------------------------------------------------
Scale == 100
Inf == 1000000
NInf == -Inf
NaN == 2 * Inf
Undef == 3 * Inf

IsNaN(x) == x = NaN
IsFinite(x) == x # NaN /\ x # Inf /\ x # NInf /\ x # Undef
IsUndef(x) == x = Undef

\* a ?? d
Nullish(x, d) == IF x = Undef THEN d ELSE x

AbsI(a) == IF a < 0 THEN -a ELSE a
SignI(a) == IF a < 0 THEN -1 ELSE IF a > 0 THEN 1 ELSE 0
RoundDiv(a, b) == SignI(a) * SignI(b) * ((2 * AbsI(a) + AbsI(b)) \div (2 * AbsI(b)))
Norm(v) == IF v >= Inf THEN Inf ELSE IF v <= NInf THEN NInf ELSE v

FNeg(x) == IF x = NaN THEN NaN ELSE -x
FAbs(x) == IF x = NaN THEN NaN ELSE AbsI(x)
FAdd(x, y) ==
  IF x = NaN \/ y = NaN THEN NaN
  ELSE IF (x = Inf /\ y = NInf) \/ (x = NInf /\ y = Inf) THEN NaN
  ELSE IF x = Inf \/ y = Inf THEN Inf
  ELSE IF x = NInf \/ y = NInf THEN NInf
  ELSE Norm(x + y)
FSub(x, y) == FAdd(x, FNeg(y))
FMul(x, y) ==
  IF x = NaN \/ y = NaN THEN NaN
  ELSE IF AbsI(x) = Inf \/ AbsI(y) = Inf
       THEN (IF x = 0 \/ y = 0 THEN NaN
             ELSE IF SignI(x) * SignI(y) > 0 THEN Inf ELSE NInf)
  ELSE IF x = 0 \/ y = 0 THEN 0
  ELSE IF AbsI(x) > (Inf * Scale) \div AbsI(y)
       THEN (IF SignI(x) * SignI(y) > 0 THEN Inf ELSE NInf)
  ELSE Norm(RoundDiv(x * y, Scale))
FDiv(x, y) ==
  IF x = NaN \/ y = NaN THEN NaN
  ELSE IF AbsI(x) = Inf
       THEN (IF AbsI(y) = Inf THEN NaN
             ELSE IF SignI(x) * (IF y < 0 THEN -1 ELSE 1) > 0 THEN Inf ELSE NInf)
  ELSE IF AbsI(y) = Inf THEN 0
  ELSE IF y = 0
       THEN (IF x = 0 THEN NaN ELSE IF x > 0 THEN Inf ELSE NInf)
  ELSE Norm(RoundDiv(x * Scale, y))
\* Math.max / Math.min
FMax(x, y) == IF x = NaN \/ y = NaN THEN NaN ELSE IF x >= y THEN x ELSE y
FMin(x, y) == IF x = NaN \/ y = NaN THEN NaN ELSE IF x <= y THEN x ELSE y
\* comparisons are false as soon as one side is NaN
FLt(x, y) == x # NaN /\ y # NaN /\ x < y
FLe(x, y) == x # NaN /\ y # NaN /\ x <= y
FGt(x, y) == FLt(y, x)
FGe(x, y) == FLe(y, x)

\* the integer square root of v < 10^8, hundreds first
ISqrt(v) ==
  LET hundreds == CHOOSE a \in 0..99 :
                    /\ (100 * a) * (100 * a) <= v
                    /\ v < (100 * (a + 1)) * (100 * (a + 1))
      units == CHOOSE b \in 0..99 :
                 /\ (100 * hundreds + b) * (100 * hundreds + b) <= v
                 /\ v < (100 * hundreds + b + 1) * (100 * hundreds + b + 1)
  IN 100 * hundreds + units
\* Math.sqrt
FSqrt(x) ==
  IF x = NaN \/ x < 0 THEN NaN
  ELSE IF x = Inf THEN Inf
  ELSE IF x > Inf THEN 10001
  ELSE ISqrt(x * Scale)

Ln2 == 69
\* Math.log on the finite positive range, by halving to [1, 2) and the
\* series 2t(1 + t^2/3), t = (m - 1)/(m + 1)
LnSeries(m) ==
  LET t == RoundDiv((m - Scale) * Scale, m + Scale)
  IN RoundDiv(2 * t * (3 * Scale * Scale + t * t), 3 * Scale * Scale)
\* the number of halvings of x >= 2, and of doublings of x < 1, that
\* bring it to [1, 2)
Halvings(x) ==
  CHOOSE q \in 0..20 : /\ x \div (2 ^ q) < 2 * Scale
                       /\ (q = 0 \/ x \div (2 ^ (q - 1)) >= 2 * Scale)
Doublings(x) ==
  CHOOSE q \in 0..20 : /\ x * (2 ^ q) >= Scale
                       /\ (q = 0 \/ x * (2 ^ (q - 1)) < Scale)
LnPos(x) ==
  IF x >= 2 * Scale THEN Halvings(x) * Ln2 + LnSeries(x \div (2 ^ Halvings(x)))
  ELSE IF x < Scale THEN LnSeries(x * (2 ^ Doublings(x))) - Doublings(x) * Ln2
  ELSE LnSeries(x)
FLn(x) ==
  IF x = NaN \/ x < 0 THEN NaN
  ELSE IF x = 0 THEN NInf
  ELSE IF x = Inf THEN Inf
  ELSE LnPos(x)
FLog2(x) == FDiv(FLn(x), Ln2)
\* Math.exp, by halving/doubling to [0, ln 2) and the cubic Taylor series:
\* x >= ln 2 is q = x div ln 2 doublings of the series at x mod ln 2, and
\* x < 0 is q halvings, each rounded half up, of the series at x + q ln 2
ExpSeries(x) ==
  Scale + x + RoundDiv(x * x, 2 * Scale) + RoundDiv(x * x * x, 6 * Scale * Scale)
ExpFin(x) ==
  IF x >= 10 * Scale THEN Inf
  ELSE IF x <= -(10 * Scale) THEN 0
  ELSE IF x >= Ln2 THEN Norm((2 ^ (x \div Ln2)) * ExpSeries(x % Ln2))
  ELSE IF x < 0
  THEN LET q == (Ln2 - 1 - x) \div Ln2
       IN (ExpSeries(x + q * Ln2) + (2 ^ q) - 1) \div (2 ^ q)
  ELSE ExpSeries(x)
FExp(x) ==
  IF x = NaN THEN NaN
  ELSE IF x = Inf THEN Inf
  ELSE IF x = NInf THEN 0
  ELSE ExpFin(x)
\* Math.pow for the bases the samplers and kernels use
FPow(b, e) ==
  IF e = 0 THEN Scale
  ELSE IF b = NaN \/ e = NaN THEN NaN
  ELSE IF b < 0 THEN NaN
  ELSE IF b = 0 THEN (IF e > 0 THEN 0 ELSE Inf)
  ELSE FExp(FMul(e, FLn(b)))
\* Math.tanh
FTanh(x) ==
  IF x = NaN THEN NaN
  ELSE IF x >= 5 * Scale THEN Scale
  ELSE IF x <= -(5 * Scale) THEN -Scale
  ELSE LET e2 == FExp(2 * x) IN FDiv(e2 - Scale, e2 + Scale)
\* Math.cos(2 * Math.PI * u) for u in [0, 1), by folding to the first
\* quarter turn and Bhaskara's approximation (1 - v^2)/(1 + v^2/4), v = 4u
CosQuarter(v) == RoundDiv((Scale * Scale - v * v) * 4 * Scale, 4 * Scale * Scale + v * v)
FCos2Pi(u) ==
  LET q == 4 * u
  IN IF q <= Scale THEN CosQuarter(q)
     ELSE IF q <= 2 * Scale THEN -CosQuarter(2 * Scale - q)
     ELSE IF q <= 3 * Scale THEN -CosQuarter(q - 2 * Scale)
     ELSE CosQuarter(4 * Scale - q)

\* ------------------------------------------------------------------------
\* Bounds of the model
\* ------------------------------------------------------------------------
MaxSampleCount == 2
SeedLen == 2

\* ------------------------------------------------------------------------
\* State
\* ------------------------------------------------------------------------
VARIABLES
  raw,            \* the model document handed in (LLM response or bundled sample)
  model,          \* the CausalModel propagation runs on
  interventions,  \* interventions of the second propagation: node id -> number
  sampleCount,    \* sampleCount argument of propagateWithSampling
  seed,           \* hidden state of Math.random: the cycle of values it returns
  rngPos,         \* number of Math.random() calls made so far
  pc,             \* position of the caller
  run,            \* which propagation is executing (1: baseline, 2: intervened)
  sorted,         \* propagateWithSampling: sorted (ids, in emission order)
  idx,            \* propagateWithSampling: nodes of sorted processed so far
  samples,        \* propagateWithSampling: samples
  baseSamples,    \* computeChildSamples: baseSamples of each endogenous node
  rawSamples,     \* per node, the vector before circuit breakers
  reads,          \* per node, the <<parent id, index, child index>> triples read
  produced,       \* per node, how many times its samples were produced
  distributions,  \* propagateWithSampling: distributions
  startPos,       \* per run, rngPos when the run began
  results,        \* per run, the PropagationResult returned
  nodeSamples,        \* graph store: nodeSamples
  nodeDistributions,  \* graph store: nodeDistributions
  analysis,       \* what runSensitivityAnalysis returned
  testResults,    \* intervention test: the TestResult of every test run so far
  args,           \* the arguments of the function that was called on its own
  ret,            \* what that function returned
  selectedNodeId, \* graph store: selectedNodeId
  selectedEdgeId, \* graph store: selectedEdgeId
  error,          \* graph store: error
  query,          \* graph store: query
  isLoading,      \* QueryInput: isLoading
  validation,     \* QueryInput: validation
  apiKey,         \* process.env.GEMINI_API_KEY
  request,        \* the body of the POST /api/generate in flight
  response,       \* the response of the endpoint in flight
  calls           \* the calls the endpoint made to llm.ts, in order

vars == <<raw, model, interventions, sampleCount, seed, rngPos, pc, run, sorted,
          idx, samples, baseSamples, rawSamples, reads, produced, distributions,
          startPos, results, nodeSamples, nodeDistributions, analysis, testResults,
          args, ret, selectedNodeId, selectedEdgeId, error, query, isLoading, validation,
          apiKey, request, response, calls>>

\* the variables of the callers of propagateWithSampling
callers == <<nodeSamples, nodeDistributions, analysis, testResults>>

\* null
null == "<null>"

\* the variables of a function called on its own, and their values when
\* no such call is made
call == <<args, ret>>
NoCall == args = <<>> /\ ret = Undef

\* the selection and the error of the graph store, and their initial values
ui == <<selectedNodeId, selectedEdgeId, error>>
InitialUi == selectedNodeId = null /\ selectedEdgeId = null /\ error = null

\* the variables of the query form and of the generate endpoint, and their
\* values when the form is not in use
generation == <<query, isLoading, validation, apiKey, request, response, calls>>
\* (a request, a response and the validation feedback are kept in a
\* sequence that is empty when there is none)
NoGeneration ==
  /\ query = ""
  /\ isLoading = FALSE
  /\ validation = <<>>
  /\ apiKey = "<undefined>"
  /\ request = <<>>
  /\ response = <<>>
  /\ calls = <<>>

\* ------------------------------------------------------------------------
\* Math.random
\* ------------------------------------------------------------------------
\* the values Math.random() returns in the model: 0, 0.3 and 0.9
Uniforms == {0, 30, 90}
\* the k-th call (k = 0, 1, ...) of Math.random()
Rand(k) == seed[(k % Len(seed)) + 1]

\* ------------------------------------------------------------------------
\* distributions.ts: samplers.  Each sampler takes the number k of
\* Math.random() calls made before it and returns its value together with
\* the number of calls made after it.
\* ------------------------------------------------------------------------
Drawn(v, k) == [val |-> v, nxt |-> k]

\* Math.sqrt(-2 * Math.log(u1)) and Math.cos(2 * Math.PI * u2), tabulated
\* over the values Math.random() returns
SqrtNeg2Ln == [u \in Uniforms |-> FSqrt(FMul(-2 * Scale, FLn(u)))]
Cos2Pi == [u \in Uniforms |-> FCos2Pi(u)]

randomNormal(mean, stdDev, k) ==
  LET u1 == Rand(k)
      u2 == Rand(k + 1)
      z == FMul(SqrtNeg2Ln[u1], Cos2Pi[u2])
  IN Drawn(FAdd(mean, FMul(stdDev, z)), k + 2)

randomLognormal(mu, sigma, k) ==
  Let(randomNormal(mu, sigma, k), LAMBDA normal : Drawn(FExp(normal.val), normal.nxt))

maxIterations == 100

\* randomBetaSafe: iteration iter (0, 1, ...) of the loop reads the two
\* draws after k + 2 * iter; the loop returns at the first iteration whose
\* draws are accepted and falls back to a / (a + b) when none of the
\* maxIterations is.  Math.random() repeats with period Len(seed), so
\* iteration iter + Len(seed) reads what iteration iter read: an accepted
\* iteration, if there is one, is among the first Len(seed).
BetaX(a, k, iter) == FPow(Rand(k + 2 * iter), FDiv(Scale, a))
BetaY(b, k, iter) == FPow(Rand(k + 2 * iter + 1), FDiv(Scale, b))
BetaAccepted(a, b, k, iter) ==
  LET xy == FAdd(BetaX(a, k, iter), BetaY(b, k, iter))
  IN FLe(xy, Scale) /\ FGt(xy, 0)
randomBetaSafe(alpha, beta, k) ==
  Let([a |-> FMax(10, alpha), b |-> FMax(10, beta)], LAMBDA safe :
    LET a == safe.a
        b == safe.b
        last == (IF Len(seed) < maxIterations THEN Len(seed) ELSE maxIterations) - 1
        accepted == {iter \in 0..last : BetaAccepted(a, b, k, iter)}
    IN IF accepted # {}
       THEN Let(CHOOSE iter \in accepted : \A j \in accepted : iter <= j, LAMBDA first :
              Drawn(FDiv(BetaX(a, k, first), FAdd(BetaX(a, k, first), BetaY(b, k, first))),
                    k + 2 * (first + 1)))
       ELSE Drawn(FDiv(a, FAdd(a, b)), k + 2 * maxIterations))

\* the do ... while (v <= 0 && attempts < 10) loop of randomGammaSafe
\* one pass of it: x = randomNormal(0, 1); v = 1 + c * x
GammaDraw(c, k) ==
  LET n == randomNormal(0, Scale, k)
  IN [x |-> n.val, v |-> FAdd(Scale, FMul(c, n.val)), nxt |-> n.nxt]
\* the loop, entered after k calls of Math.random(): each pass makes the
\* two calls of randomNormal, so pass number `attempts` (0, 1, ...) draws
\* after k + 2 * attempts calls
RECURSIVE GammaInner(_, _, _)
GammaInner(c, attempts, k) ==
  IF FLe(GammaDraw(c, k + 2 * attempts).v, 0) /\ attempts + 1 < 10
  THEN GammaInner(c, attempts + 1, k)
  ELSE GammaDraw(c, k + 2 * attempts)

\* iterations iter .. stop - 1 of the for loop of randomGammaSafe
RECURSIVE GammaIterations(_, _, _, _, _, _)
GammaIterations(r, d, c, iter, stop, k) ==
  IF iter >= stop THEN [done |-> FALSE, val |-> 0, nxt |-> k]
  ELSE Let(GammaInner(c, 0, k), LAMBDA in :
         IF FLe(in.v, 0) THEN GammaIterations(r, d, c, iter + 1, stop, in.nxt)
         ELSE LET v3 == FMul(FMul(in.v, in.v), in.v)
                  x2 == FMul(in.x, in.x)
                  u == Rand(in.nxt)
              IN IF \/ FLt(u, FSub(Scale, FMul(3, FMul(x2, x2))))
                    \/ FLt(FLn(u), FAdd(FMul(50, x2),
                                        FMul(d, FAdd(FSub(Scale, v3), FLn(v3)))))
                 THEN [done |-> TRUE, val |-> FDiv(FMul(d, v3), r), nxt |-> in.nxt + 1]
                 ELSE GammaIterations(r, d, c, iter + 1, stop, in.nxt + 1))

\* the for loop of randomGammaSafe and the fallback s / r after maxIterations.
\* Math.random() repeats with period Len(seed), so an iteration that starts
\* where an earlier rejected iteration started is rejected like it and leaves
\* the same number of draws later; `seen` records where the rejected
\* iterations started, and whole repetitions of such a cycle are taken in
\* one step.
RECURSIVE GammaSafeLoop(_, _, _, _, _, _, _)
GammaSafeLoop(s, r, d, c, iter, k, seen) ==
  IF iter >= maxIterations THEN Drawn(FDiv(s, r), k)
  ELSE LET res == k % Len(seed)
           cycles == IF res \in DOMAIN seen
                     THEN (maxIterations - iter) \div (iter - seen[res].iter)
                     ELSE 0
       IN IF cycles > 0
          THEN GammaSafeLoop(s, r, d, c, iter + cycles * (iter - seen[res].iter),
                             k + cycles * (k - seen[res].k), <<>>)
          ELSE Let(GammaIterations(r, d, c, iter, iter + 1, k), LAMBDA part :
                 IF part.done THEN Drawn(part.val, part.nxt)
                 ELSE GammaSafeLoop(s, r, d, c, iter + 1, part.nxt,
                                    (res :> [iter |-> iter, k |-> k]) @@ seen))

RECURSIVE GammaSafe(_, _, _)
GammaSafe(shape, rate, k) ==
  LET s == FMax(10, shape)
      r == FMax(10, rate)
  IN IF FLt(s, Scale)
     THEN Let(GammaSafe(FAdd(s, Scale), r, k), LAMBDA g :
            Drawn(FMul(g.val, FPow(Rand(g.nxt), FDiv(Scale, s))), g.nxt + 1))
     ELSE LET d == FSub(s, 33)
          IN Let(FDiv(Scale, FSqrt(FMul(9 * Scale, d))), LAMBDA c :
               GammaSafeLoop(s, r, d, c, 0, k, <<>>))

randomGammaSafe(shape, rate, k) == GammaSafe(shape, rate, k)

\* Math.round
FRound(x) == IF IsFinite(x) THEN ((x + 50) \div Scale) * Scale ELSE x

\* one pass of do { k++; p *= Math.random() } while (p > L); st holds cnt
\* (k in the source), prod (p) and the position nxt of Math.random's stream
PoissonStep(st) ==
  [cnt |-> st.cnt + 1, prod |-> FMul(st.prod, Rand(st.nxt)), nxt |-> st.nxt + 1]
RECURSIVE PoissonLoop(_, _)
PoissonLoop(L, st) ==
  IF FGt(st.prod, L) THEN PoissonLoop(L, PoissonStep(st))
  ELSE Drawn((st.cnt - 1) * Scale, st.nxt)

randomPoisson(lambda, k) ==
  IF FLt(lambda, 30 * Scale)
  THEN Let(FExp(FNeg(lambda)), LAMBDA L :
         PoissonLoop(L, PoissonStep([cnt |-> 0, prod |-> Scale, nxt |-> k])))
  ELSE Let(randomNormal(lambda, FSqrt(lambda), k), LAMBDA n :
         Drawn(FMax(0, FRound(n.val)), n.nxt))

randomPERTSafe(min, max, mode, k) ==
  IF FLe(max, min) THEN Drawn(min, k)
  ELSE LET range == FSub(max, min)
           clampedMode == FMax(min, FMin(max, mode))
           mu == FDiv(FAdd(FAdd(min, FMul(4 * Scale, clampedMode)), max), 6 * Scale)
       IN Let(randomBetaSafe(
                FMax(50, FAdd(Scale, FDiv(FMul(4 * Scale, FSub(mu, min)), range))),
                FMax(50, FAdd(Scale, FDiv(FMul(4 * Scale, FSub(max, mu)), range))), k),
              LAMBDA b : Drawn(FAdd(min, FMul(b.val, range)), b.nxt))

\* ------------------------------------------------------------------------
\* types/causal.ts: Distribution.  One record shape for all variants; a slot
\* a document leaves out holds Undef (JavaScript undefined).
\* ------------------------------------------------------------------------
NoDist ==
  [type |-> "<undefined>", dist |-> "", params |-> <<>>, p |-> Undef, probs |-> <<>>,
   min |-> Undef, max |-> Undef, mode |-> Undef, lambda |-> Undef,
   alpha |-> Undef, beta |-> Undef]
Binary(p) == [NoDist EXCEPT !.type = "binary", !.p = p]
Categorical(probs) == [NoDist EXCEPT !.type = "categorical", !.probs = probs]
Continuous(dist, params) == [NoDist EXCEPT !.type = "continuous", !.dist = dist, !.params = params]
Bounded(min, max, mode) == [NoDist EXCEPT !.type = "bounded", !.min = min, !.max = max, !.mode = mode]
Count(lambda) == [NoDist EXCEPT !.type = "count", !.lambda = lambda]
Rate(alpha, beta) == [NoDist EXCEPT !.type = "rate", !.alpha = alpha, !.beta = beta]

\* params?.[i]
ParamAt(params, i) == IF i <= Len(params) THEN params[i] ELSE Undef

RECURSIVE CumProbs(_, _, _)
CumProbs(probs, i, cumSum) ==
  IF i > Len(probs) THEN <<>>
  ELSE <<FAdd(cumSum, probs[i])>> \o CumProbs(probs, i + 1, FAdd(cumSum, probs[i]))

\* cumProbs.findIndex(cp => u <= cp)
FindIndex(cumProbs, u) ==
  IF \E i \in 1..Len(cumProbs) : FLe(u, cumProbs[i])
  THEN (CHOOSE i \in 1..Len(cumProbs) :
          /\ FLe(u, cumProbs[i])
          /\ \A j \in 1..(i - 1) : ~FLe(u, cumProbs[j])) - 1
  ELSE -1

\* one iteration of the sampling loop of the variant of dist
SampleOne(dist, k) ==
  CASE dist.type = "binary" ->
         Drawn(IF FLt(Rand(k), Nullish(dist.p, 50)) THEN Scale ELSE 0, k + 1)
    [] dist.type = "categorical" ->
         Drawn(FindIndex(CumProbs(dist.probs, 1, 0), Rand(k)) * Scale, k + 1)
    [] dist.type = "continuous" ->
         LET mean == Nullish(ParamAt(dist.params, 1), 0)
             std == FMax(Nullish(ParamAt(dist.params, 2), Scale), 1)
         IN CASE dist.dist = "lognormal" -> randomLognormal(mean, std, k)
              [] dist.dist = "beta" -> randomBetaSafe(mean, std, k)
              [] dist.dist = "gamma" -> randomGammaSafe(mean, std, k)
              [] OTHER -> randomNormal(mean, std, k)
    [] dist.type = "bounded" ->
         LET min == Nullish(dist.min, 0)
             max == Nullish(dist.max, 100 * Scale)
             mode == Nullish(dist.mode, FDiv(FAdd(min, max), 2 * Scale))
         IN randomPERTSafe(min, max, mode, k)
    [] dist.type = "count" ->
         randomPoisson(FMax(Nullish(dist.lambda, Scale), 10), k)
    [] dist.type = "rate" ->
         randomBetaSafe(FMax(Nullish(dist.alpha, Scale), 10),
                        FMax(Nullish(dist.beta, Scale), 10), k)
    [] OTHER -> randomNormal(0, Scale, k)

\* the sampling loop; st holds the samples pushed so far and the position
\* of Math.random's stream
RECURSIVE SampleLoop(_, _, _)
SampleLoop(dist, n, st) ==
  IF Len(st.vec) >= n THEN st
  ELSE SampleLoop(dist, n,
         Let(SampleOne(dist, st.nxt), LAMBDA d :
           [vec |-> Append(st.vec, d.val), nxt |-> d.nxt]))

\* an empty vector
NoSamples(n) == <<>>

\* new Array(n).fill(0)
Zeros(n) == [i \in 1..n |-> 0]

\* sampleFromDistribution(dist, n), begun after k calls of Math.random()
sampleFromDistribution(dist, n, k) ==
  IF dist = NoDist
  THEN [vec |-> Zeros(n), nxt |-> k]   \* dist.type throws; the catch returns zeros
  ELSE IF dist.type = "categorical" /\ Len(dist.probs) = 0
  THEN [vec |-> Zeros(n), nxt |-> k]
  ELSE SampleLoop(dist, n, [vec |-> <<>>, nxt |-> k])

RECURSIVE WeightedIndexSum(_, _)
WeightedIndexSum(probs, i) ==
  IF i > Len(probs) THEN 0
  ELSE FAdd(FMul(Nullish(probs[i], 0), (i - 1) * Scale), WeightedIndexSum(probs, i + 1))

\* Math.max(x, d): the larger of x and d
AtLeast(x, d) == FMax(x, d)

\* x || d for numbers
OrElse(x, d) == IF x = 0 \/ x = NaN \/ x = Undef THEN d ELSE x

expectedValue(dist) ==
  CASE dist = NoDist \/ dist.type = "" -> 0
    [] dist.type = "binary" -> Nullish(dist.p, 50)
    [] dist.type = "categorical" ->
         IF Len(dist.probs) = 0 THEN 0 ELSE WeightedIndexSum(dist.probs, 1)
    [] dist.type = "continuous" ->
         LET p0 == Nullish(ParamAt(dist.params, 1), 0)
             p1 == Nullish(ParamAt(dist.params, 2), Scale)
         IN CASE dist.dist = "normal" -> p0
              [] dist.dist = "lognormal" ->
                   FExp(FAdd(p0, FDiv(FMul(p1, p1), 2 * Scale)))
              [] dist.dist = "beta" -> FDiv(p0, OrElse(FAdd(p0, p1), Scale))
              [] dist.dist = "gamma" -> FDiv(p0, OrElse(p1, Scale))
              [] OTHER -> p0
    [] dist.type = "bounded" ->
         LET min == Nullish(dist.min, 0)
             max == Nullish(dist.max, 100 * Scale)
             mode == Nullish(dist.mode, FDiv(FAdd(min, max), 2 * Scale))
         IN FDiv(FAdd(FAdd(min, FMul(4 * Scale, mode)), max), 6 * Scale)
    [] dist.type = "count" -> Nullish(dist.lambda, Scale)
    [] dist.type = "rate" ->
         LET alpha == Nullish(dist.alpha, Scale)
             beta == Nullish(dist.beta, Scale)
         IN FDiv(alpha, FAdd(alpha, beta))
    [] OTHER -> 0

\* ------------------------------------------------------------------------
\* types/causal.ts: EffectFunction, CircuitBreakers, CausalNode, CausalEdge
\* ------------------------------------------------------------------------
NoEffect ==
  [type |-> "<undefined>", coefficient |-> Undef, intercept |-> Undef, saturation |-> Undef,
   factor |-> Undef, baseline |-> Undef, cutoff |-> Undef, below |-> Undef,
   above |-> Undef, smoothness |-> Undef, threshold |-> Undef]
Linear(coefficient) == [NoEffect EXCEPT !.type = "linear", !.coefficient = coefficient]
Multiplicative(factor, baseline) ==
  [NoEffect EXCEPT !.type = "multiplicative", !.factor = factor, !.baseline = baseline]
Threshold(cutoff, below, above) ==
  [NoEffect EXCEPT !.type = "threshold", !.cutoff = cutoff, !.below = below, !.above = above]
Logistic(coefficient, threshold) ==
  [NoEffect EXCEPT !.type = "logistic", !.coefficient = coefficient, !.threshold = threshold]

NoBreakers ==
  [minValue |-> Undef, maxValue |-> Undef, priorWeight |-> Undef, maxStdDevRatio |-> Undef]
DEFAULT_CIRCUIT_BREAKERS ==
  [minValue |-> Undef, maxValue |-> Undef, priorWeight |-> 0, maxStdDevRatio |-> 3 * Scale]
\* { ...DEFAULT_CIRCUIT_BREAKERS, ...node.circuitBreakers }
MergedBreakers(cb) ==
  [f \in DOMAIN DEFAULT_CIRCUIT_BREAKERS |-> Nullish(cb[f], DEFAULT_CIRCUIT_BREAKERS[f])]

\* ------------------------------------------------------------------------
\* inference.ts: effect kernels
\* ------------------------------------------------------------------------
\* a multiplier that is not clamped
NoClamp(m) == m

\* Math.min(Math.max(m, 0.1), 10)
ClampMultiplier(m) == FMin(FMax(m, 10), 10 * Scale)

applyLinearEffect(baseValue, effect, parentValue, parentPriorMean) ==
  LET coefficient == Nullish(effect.coefficient, 30)
  IN \* Math.abs(parentPriorMean) < 0.001: below the resolution of the model
     \* every magnitude but 0 is at least 0.01
     IF parentPriorMean = 0
     THEN FAdd(baseValue, FMul(FMul(coefficient, parentValue), 1))
     ELSE LET parentDeviation == FDiv(FSub(parentValue, parentPriorMean), parentPriorMean)
              effectiveDeviation ==
                IF OrElse(effect.saturation, 0) # 0 /\ FGt(effect.saturation, 0)
                THEN FMul(effect.saturation, FTanh(FDiv(parentDeviation, effect.saturation)))
                ELSE parentDeviation
              multiplier == FAdd(Scale, FMul(coefficient, effectiveDeviation))
          IN FMul(baseValue, ClampMultiplier(multiplier))

applyMultiplicativeEffect(baseValue, effect, parentValue) ==
  LET factor == Nullish(effect.factor, 150)
      baseline == Nullish(effect.baseline, Scale)
  IN IF FLe(parentValue, 0) \/ FLe(baseline, 0) THEN baseValue
     ELSE LET doublings == FLog2(FDiv(parentValue, baseline))
              rawMultiplier == FPow(factor, doublings)
          IN FMul(baseValue, ClampMultiplier(rawMultiplier))

\* a Threshold effect whose deviation is taken over max(|cutoff|, 1)
thresholdOverFlooredCutoff(baseValue, effect, parentValue, parentPriorMean) ==
  LET cutoff == Nullish(effect.cutoff, parentPriorMean)
      below == Nullish(effect.below, 10)
      above == Nullish(effect.above, 50)
      k == Nullish(effect.smoothness, 2 * Scale)
      weight == FDiv(Scale, FAdd(Scale, FExp(FMul(FNeg(k), FSub(parentValue, cutoff)))))
      effectiveCoefficient == FAdd(FMul(below, FSub(Scale, weight)), FMul(above, weight))
      parentDeviation == FDiv(FSub(parentValue, cutoff), FMax(FAbs(cutoff), Scale))
      multiplier == FAdd(Scale, FMul(effectiveCoefficient, parentDeviation))
  IN FMul(baseValue, ClampMultiplier(multiplier))

applyThresholdEffect(baseValue, effect, parentValue, parentPriorMean) ==
  LET cutoff == Nullish(effect.cutoff, parentPriorMean)
      below == Nullish(effect.below, 10)
      above == Nullish(effect.above, 50)
      k == Nullish(effect.smoothness, 2 * Scale)
      weight == FDiv(Scale, FAdd(Scale, FExp(FMul(FNeg(k), FSub(parentValue, cutoff)))))
      effectiveCoefficient == FAdd(FMul(below, FSub(Scale, weight)), FMul(above, weight))
      parentDeviation == FDiv(FSub(parentValue, cutoff), FAbs(OrElse(cutoff, Scale)))
      multiplier == FAdd(Scale, FMul(effectiveCoefficient, parentDeviation))
  IN FMul(baseValue, ClampMultiplier(multiplier))

applyLogisticEffect(baseProbability, effect, parentValue) ==
  LET coefficient == Nullish(effect.coefficient, 10)
      threshold == Nullish(effect.threshold, 0)
      \* 0.001 and 0.999 at the resolution of the model
      clampedP == FMin(FMax(baseProbability, 1), Scale - 1)
      logOdds == FLn(FDiv(clampedP, FSub(Scale, clampedP)))
      newLogOdds == FAdd(logOdds, FMul(coefficient, FSub(parentValue, threshold)))
      clampedLogOdds == FMin(FMax(newLogOdds, -10 * Scale), 10 * Scale)
  IN FDiv(Scale, FAdd(Scale, FExp(FNeg(clampedLogOdds))))

applyEffectToSample(baseValue, effect, parentValue, parentPriorMean) ==
  IF effect = NoEffect THEN baseValue
  ELSE IF IsNaN(baseValue) \/ IsNaN(parentValue) THEN baseValue
  ELSE LET result ==
             CASE effect.type = "linear" ->
                    applyLinearEffect(baseValue, effect, parentValue, parentPriorMean)
               [] effect.type = "multiplicative" ->
                    applyMultiplicativeEffect(baseValue, effect, parentValue)
               [] effect.type = "threshold" ->
                    applyThresholdEffect(baseValue, effect, parentValue, parentPriorMean)
               [] effect.type = "logistic" ->
                    applyLogisticEffect(baseValue, effect, parentValue)
               [] OTHER -> baseValue
       IN IF IsFinite(result) THEN result ELSE baseValue

\* ------------------------------------------------------------------------
\* inference.ts: circuit breakers and variance clamping
\* ------------------------------------------------------------------------
BreakOne(value, config, priorMean) ==
  LET b1 == IF IsNaN(value) THEN priorMean ELSE value
      b2 == IF config.minValue # Undef THEN FMax(b1, config.minValue) ELSE b1
      b3 == IF config.maxValue # Undef THEN FMin(b2, config.maxValue) ELSE b2
  IN IF OrElse(config.priorWeight, 0) # 0 /\ FGt(config.priorWeight, 0)
     THEN FAdd(priorMean, FMul(FSub(b3, priorMean), FSub(Scale, config.priorWeight)))
     ELSE b3

applyCircuitBreakers(node, vec) ==
  LET config == MergedBreakers(node.circuitBreakers)
      priorMean == expectedValue(node.distribution)
  IN [i \in 1..Len(vec) |-> BreakOne(vec[i], config, priorMean)]

\* samples.reduce((a, b) => a + f(b), 0)
RECURSIVE SumFrom(_, _, _)
SumFrom(vec, i, acc) ==
  IF i > Len(vec) THEN acc ELSE SumFrom(vec, i + 1, FAdd(acc, vec[i]))

MeanOf(vec) == FDiv(SumFrom(vec, 1, 0), Len(vec) * Scale)
VarianceOf(vec) ==
  LET mean == MeanOf(vec)
      sq == [i \in 1..Len(vec) |-> FMul(FSub(vec[i], mean), FSub(vec[i], mean))]
  IN FDiv(SumFrom(sq, 1, 0), Len(vec) * Scale)

clampVariance(vec, config) ==
  LET mean == MeanOf(vec)
      stdDev == FSqrt(VarianceOf(vec))
      maxStdDevRatio == Nullish(config.maxStdDevRatio, 2 * Scale)
      maxStdDev == FMul(FAbs(mean), maxStdDevRatio)
  IN IF FGt(stdDev, maxStdDev) /\ FGt(maxStdDev, 0)
     THEN LET compressionFactor == FDiv(maxStdDev, stdDev)
          IN [i \in 1..Len(vec) |-> FAdd(mean, FMul(FSub(vec[i], mean), compressionFactor))]
     ELSE vec

\* ------------------------------------------------------------------------
\* inference.ts: topologicalSort.  A Map is a function together with the
\* insertion order of its keys.
\* ------------------------------------------------------------------------
NodeIds(m) == {m.nodes[i].id : i \in 1..Len(m.nodes)}
NodeById(m, id) == m.nodes[CHOOSE i \in 1..Len(m.nodes) : m.nodes[i].id = id]
IdsInOrder(m) == [i \in 1..Len(m.nodes) |-> m.nodes[i].id]

\* the loop over edges that fills inDegree and adjacency
RECURSIVE BuildDegrees(_, _, _)
BuildDegrees(edges, i, st) ==
  IF i > Len(edges) THEN st
  ELSE LET e == edges[i]
           known == e.target \in DOMAIN st.deg
           old == IF known THEN OrElse(st.deg[e.target], 0) ELSE 0
           deg2 == IF known THEN [st.deg EXCEPT ![e.target] = old + 1]
                   ELSE st.deg @@ (e.target :> old + 1)
           keys2 == IF known THEN st.keys ELSE Append(st.keys, e.target)
           adj2 == IF e.source \in DOMAIN st.adj
                   THEN [st.adj EXCEPT ![e.source] = Append(@, e.target)]
                   ELSE st.adj
       IN BuildDegrees(edges, i + 1, [keys |-> keys2, deg |-> deg2, adj |-> adj2])

\* the loop over the children of a dequeued node
RECURSIVE VisitChildren(_, _, _, _)
VisitChildren(children, j, deg, queue) ==
  IF j > Len(children) THEN [deg |-> deg, queue |-> queue]
  ELSE LET child == children[j]
           newDegree == OrElse(deg[child], 1) - 1
       IN VisitChildren(children, j + 1, [deg EXCEPT ![child] = newDegree],
                        IF newDegree = 0 THEN Append(queue, child) ELSE queue)

RECURSIVE KahnLoop(_, _, _, _, _)
KahnLoop(m, queue, deg, adj, out) ==
  IF Len(queue) = 0 THEN out
  ELSE LET id == Head(queue)
           out2 == IF id \in NodeIds(m) THEN Append(out, id) ELSE out
           children == IF id \in DOMAIN adj THEN adj[id] ELSE <<>>
           v == VisitChildren(children, 1, deg, Tail(queue))
       IN KahnLoop(m, v.queue, v.deg, adj, out2)

\* the nodes in the order the document lists them, unsorted
DocumentOrder(m) == [i \in 1..Len(m.nodes) |-> m.nodes[i].id]

\* the nodes in the reverse of the order the document lists them
ReverseDocumentOrder(m) == [i \in 1..Len(m.nodes) |-> m.nodes[Len(m.nodes) + 1 - i].id]

\* topologicalSort(model): the ids of the returned nodes, in order
topologicalSort(m) ==
  LET ids == IdsInOrder(m)
      st == BuildDegrees(m.edges, 1,
                         [keys |-> ids,
                          deg |-> [id \in NodeIds(m) |-> 0],
                          adj |-> [id \in NodeIds(m) |-> <<>>]])
      queue == SelectSeq(st.keys, LAMBDA id : st.deg[id] = 0)
  IN KahnLoop(m, queue, st.deg, st.adj, <<>>)

\* ------------------------------------------------------------------------
\* inference.ts: computeChildSamples
\* ------------------------------------------------------------------------
\* edges.filter(e => e.target === id)
ParentEdges(m, id) == SelectSeq(m.edges, LAMBDA e : e.target = id)

\* parentSamples[source]?.[i] ?? 0, i counted from 1
ParentValueAt(parentSamples, source, i) ==
  IF source \in DOMAIN parentSamples /\ i <= Len(parentSamples[source])
  THEN parentSamples[source][i]
  ELSE 0

\* every sample of the child reads the first entry of the parent vector
ParentIndexFirst(i) == 1

\* the index of the parent vector that sample i of the child reads
ParentIndex(i) == i

\* the loop over parentEdges for one sample index
RECURSIVE ApplyParents(_, _, _, _, _, _)
ApplyParents(m, parentEdges, j, parentSamples, i, value) ==
  IF j > Len(parentEdges) THEN value
  ELSE LET edge == parentEdges[j]
           parentValue == ParentValueAt(parentSamples, edge.source, ParentIndex(i))
           parentPriorMean == IF edge.source \in NodeIds(m)
                              THEN expectedValue(NodeById(m, edge.source).distribution)
                              ELSE 0
       IN ApplyParents(m, parentEdges, j + 1, parentSamples, i,
                       applyEffectToSample(value, edge.effect, parentValue, parentPriorMean))

\* computeChildSamples: the base draw, the returned vector and the reads made
computeChildSamples(m, node, parentSamples, n, k) ==
  LET parentEdges == ParentEdges(m, node.id)
  IN Let(sampleFromDistribution(node.distribution, n, k), LAMBDA base :
       [base |-> base.vec,
        vec |-> [i \in 1..Len(base.vec) |->
                   ApplyParents(m, parentEdges, 1, parentSamples, i, base.vec[i])],
        reads |-> {<<parentEdges[j].source, ParentIndex(i), i>> :
                     j \in 1..Len(parentEdges), i \in 1..Len(base.vec)},
        nxt |-> base.nxt])

\* ------------------------------------------------------------------------
\* distributions.ts: samplesToKDE (mean, stdDev and percentiles; the density
\* curve `points` is not part of the model)
\* ------------------------------------------------------------------------
RECURSIVE InsertSorted(_, _)
InsertSorted(s, x) ==
  IF Len(s) = 0 THEN <<x>>
  ELSE IF x < Head(s) THEN <<x>> \o s
  ELSE <<Head(s)>> \o InsertSorted(Tail(s), x)
RECURSIVE SortAscending(_)
SortAscending(s) ==
  IF Len(s) = 0 THEN <<>> ELSE InsertSorted(SortAscending(Tail(s)), Head(s))

DegenerateKDE ==
  [type |-> "kde", mean |-> 0, stdDev |-> Scale,
   percentiles |-> [p5 |-> 0, p25 |-> 0, p50 |-> 0, p75 |-> 0, p95 |-> 0]]

samplesToKDE(vec) ==
  LET validSamples == SelectSeq(vec, IsFinite)
      n == Len(validSamples)
      sortedS == SortAscending(validSamples)
      mean == MeanOf(validSamples)
      stdDev == OrElse(FSqrt(VarianceOf(validSamples)), Scale)
      \* sorted[Math.min(Math.floor(n * p), n - 1)] ?? mean, p in hundredths
      getPercentile(p) ==
        LET at == IF (n * p) \div 100 < n - 1 THEN (n * p) \div 100 ELSE n - 1
        IN sortedS[at + 1]
  IN IF Len(vec) = 0 \/ n = 0 THEN DegenerateKDE
     ELSE [type |-> "kde", mean |-> mean, stdDev |-> stdDev,
           percentiles |-> [p5 |-> getPercentile(5), p25 |-> getPercentile(25),
                            p50 |-> getPercentile(50), p75 |-> getPercentile(75),
                            p95 |-> getPercentile(95)]]

\* ------------------------------------------------------------------------
\* llm.ts: findConnectedComponents, ensureConnectedGraph, fixNodeTypes
\* ------------------------------------------------------------------------
\* adjacency.get(id) || []: the undirected neighbours recorded for a node id
Neighbors(m, id) ==
  IF id \in NodeIds(m)
  THEN {m.edges[i].target : i \in {j \in 1..Len(m.edges) : m.edges[j].source = id}}
       \cup {m.edges[i].source : i \in {j \in 1..Len(m.edges) : m.edges[j].target = id}}
  ELSE {}

\* the breadth-first search from the ids of S that skips visited ids
RECURSIVE BfsClosure(_, _, _)
BfsClosure(m, S, visited) ==
  LET S2 == S \cup (UNION {Neighbors(m, x) : x \in S} \ visited)
  IN IF S2 = S THEN S ELSE BfsClosure(m, S2, visited)

\* the components, as sets of ids, in the order they are found
RECURSIVE ComponentsFrom(_, _, _)
ComponentsFrom(m, i, visited) ==
  IF i > Len(m.nodes) THEN <<>>
  ELSE IF m.nodes[i].id \in visited THEN ComponentsFrom(m, i + 1, visited)
  ELSE LET component == BfsClosure(m, {m.nodes[i].id}, visited)
       IN <<component>> \o ComponentsFrom(m, i + 1, visited \cup component)

findConnectedComponents(m) == ComponentsFrom(m, 1, {})

\* components.sort((a, b) => b.length - a.length), a stable sort
RECURSIVE InsertBySize(_, _)
InsertBySize(s, c) ==
  IF Len(s) = 0 THEN <<c>>
  ELSE IF Cardinality(c) > Cardinality(s[Len(s)])
       THEN Append(InsertBySize(SubSeq(s, 1, Len(s) - 1), c), s[Len(s)])
  ELSE Append(s, c)
RECURSIVE SortBySize(_, _)
SortBySize(cs, i) ==
  IF i = 0 THEN <<>>
  ELSE InsertBySize(SortBySize(cs, i - 1), cs[i])

\* model.nodes.find(n => component.includes(n.id) && pred(n)) || model.nodes.find(n => component.includes(n.id))
FindNode(m, component, notType) ==
  LET pref == {i \in 1..Len(m.nodes) : m.nodes[i].id \in component /\ m.nodes[i].type # notType}
      any == {i \in 1..Len(m.nodes) : m.nodes[i].id \in component}
      first(S) == CHOOSE i \in S : \A j \in S : i <= j
  IN IF pref # {} THEN m.nodes[first(pref)].id
     ELSE IF any # {} THEN m.nodes[first(any)].id
     ELSE ""

\* an edge from the small component's node to itself
SelfEdge(source, target) ==
  [source |-> target, target |-> target, effect |-> Linear(10)]

\* the edge ensureConnectedGraph adds
ConnectingEdge(source, target) ==
  [source |-> source, target |-> target, effect |-> Linear(10)]

RECURSIVE ConnectLoop(_, _, _, _, _)
ConnectLoop(m, components, i, large, newEdges) ==
  IF i > Len(components) THEN newEdges
  ELSE LET smallNode == FindNode(m, components[i], "exogenous")
           largeNode == FindNode(m, large, "terminal")
       IN IF smallNode # "" /\ largeNode # ""
          THEN ConnectLoop(m, components, i + 1, large \cup components[i],
                           Append(newEdges, ConnectingEdge(largeNode, smallNode)))
          ELSE ConnectLoop(m, components, i + 1, large, newEdges)

ensureConnectedGraph(m) ==
  LET found == findConnectedComponents(m)
  IN IF Len(found) <= 1 THEN m
     ELSE LET components == SortBySize(found, Len(found))
          IN [m EXCEPT !.edges = ConnectLoop(m, components, 2, components[1], m.edges)]

\* the model with the node types the document gave
KeepNodeTypes(m) == m

fixNodeTypes(m) ==
  LET hasIncoming(id) == \E i \in 1..Len(m.edges) : m.edges[i].target = id
      hasOutgoing(id) == \E i \in 1..Len(m.edges) : m.edges[i].source = id
      fix(node) ==
        IF ~hasIncoming(node.id) /\ node.type # "exogenous"
        THEN [node EXCEPT !.type = "exogenous", !.shape = "diamond"]
        ELSE IF hasOutgoing(node.id) /\ node.type = "terminal"
        THEN [node EXCEPT !.type = "endogenous", !.shape = "circle"]
        ELSE IF ~hasOutgoing(node.id) /\ node.type # "terminal" /\ hasIncoming(node.id)
        THEN [node EXCEPT !.type = "terminal", !.shape = "rectangle"]
        ELSE node
  IN [m EXCEPT !.nodes = [i \in 1..Len(m.nodes) |-> fix(m.nodes[i])]]

\* generateCausalModel: the checks made on the parsed document
\* (doc.fields: the top-level fields the parsed JSON document has)
ValidStructure(doc) == {"nodes", "edges", "zones"} \subseteq doc.fields

\* ------------------------------------------------------------------------
\* Inputs: the model documents, interventions and Math.random states the
\* model is checked on
\* ------------------------------------------------------------------------
Node(id, type, distribution, circuitBreakers) ==
  [id |-> id, type |-> type, shape |-> "circle", distribution |-> distribution,
   circuitBreakers |-> circuitBreakers]
Edge(source, target, effect) == [source |-> source, target |-> target, effect |-> effect]

\* node order of the document and the arcs <<source, target>>
Topologies ==
  { [order |-> <<"c", "b", "a">>, arcs |-> << <<"b", "c">>, <<"a", "b">> >>],
    [order |-> <<"b", "a", "c">>, arcs |-> << <<"a", "c">>, <<"b", "c">> >>],
    [order |-> <<"c", "a", "b">>, arcs |-> << <<"a", "b">>, <<"a", "c">>, <<"b", "c">> >>],
    [order |-> <<"a", "b", "c">>, arcs |-> << <<"a", "b">>, <<"b", "c">>, <<"c", "b">> >>],
    [order |-> <<"a", "b", "c">>, arcs |-> << <<"x", "b">>, <<"a", "c">> >>],
    [order |-> <<"a", "c", "b">>, arcs |-> << <<"a", "b">> >>],
    [order |-> <<"b", "a">>, arcs |-> << <<"a", "b">>, <<"a", "z">> >>] }

UnknownDist == [NoDist EXCEPT !.type = "weibull", !.params = <<200, 100>>]
UnknownEffect == [NoEffect EXCEPT !.type = "quadratic", !.coefficient = 50]
MinMax(lo, hi) == [NoBreakers EXCEPT !.minValue = lo, !.maxValue = hi]

\* per position of the node order: distribution and circuit breakers;
\* per position of the arcs: effect; how the document labels node types; and
\* where the document comes from (the parsed response of generateCausalModel,
\* or a model handed to the store as it is)
Parameterisations ==
  { [dists |-> <<Continuous("normal", <<1000, 100>>), Continuous("normal", <<500, 50>>),
                 Continuous("normal", <<2000, 200>>)>>,
     effects |-> <<Linear(50), Linear(100), Linear(30)>>,
     breakers |-> <<NoBreakers, NoBreakers, NoBreakers>>,
     types |-> "structural", fields |-> {"nodes", "edges", "zones"},
     origins |-> {"direct"}],
    [dists |-> <<Continuous("normal", <<5000, 1000>>), Continuous("lognormal", <<100, 50>>),
                 Continuous("normal", <<10000, 1000>>)>>,
     effects |-> <<Multiplicative(200, 5000), Threshold(8000, 20, 70),
                   [Linear(80) EXCEPT !.saturation = 50]>>,
     breakers |-> <<MinMax(0, 10000), MinMax(0, 10000),
                    [NoBreakers EXCEPT !.maxStdDevRatio = 5]>>,
     types |-> "endogenous", fields |-> {"nodes", "edges", "zones"},
     origins |-> {"direct"}],
    [dists |-> <<Binary(50), Continuous("beta", <<200, 300>>), Continuous("gamma", <<200, 100>>)>>,
     effects |-> <<Logistic(100, 0), Linear(Undef), Multiplicative(Undef, Undef)>>,
     breakers |-> <<[MinMax(60, 90) EXCEPT !.priorWeight = 50],
                    [MinMax(60, 90) EXCEPT !.priorWeight = 50],
                    [MinMax(500, 900) EXCEPT !.priorWeight = 50]>>,
     types |-> "structural", fields |-> {"nodes", "edges", "zones"},
     origins |-> {"direct"}],
    [dists |-> <<Categorical(<<20, 50, 30>>), Bounded(0, 10000, 2500), Count(300)>>,
     effects |-> <<Linear(-200), Threshold(Undef, Undef, Undef), Linear(50)>>,
     breakers |-> <<NoBreakers, MinMax(3000, 6000), [NoBreakers EXCEPT !.priorWeight = 100]>>,
     types |-> "exogenous", fields |-> {"nodes", "edges", "zones"},
     origins |-> {"response", "direct"}],
    [dists |-> <<Rate(200, 200), Continuous("gamma", <<50, 100>>), Continuous("normal", <<0, 100>>)>>,
     effects |-> <<Linear(50), Linear(50), Threshold(50, 20, 70)>>,
     breakers |-> <<NoBreakers, [NoBreakers EXCEPT !.minValue = 0], NoBreakers>>,
     types |-> "terminal", fields |-> {"nodes", "edges", "zones"},
     origins |-> {"response", "direct"}],
    [dists |-> <<UnknownDist, Continuous("normal", <<1000, 100>>), Count(4000)>>,
     effects |-> <<UnknownEffect, Linear(50), NoEffect>>,
     breakers |-> <<NoBreakers, NoBreakers, NoBreakers>>,
     types |-> "structural", fields |-> {"nodes", "edges", "zones"},
     origins |-> {"response", "direct"}],
    [dists |-> <<NoDist, Continuous("", <<>>), Categorical(<<>>)>>,
     effects |-> <<Linear(50), Linear(50), Linear(50)>>,
     breakers |-> <<NoBreakers, NoBreakers, NoBreakers>>,
     types |-> "structural", fields |-> {"nodes", "edges"},
     origins |-> {"response", "direct"}] }

TypeOf(t, p, id) ==
  LET hasIn == \E i \in 1..Len(t.arcs) : t.arcs[i][2] = id
      hasOut == \E i \in 1..Len(t.arcs) : t.arcs[i][1] = id
  IN IF p.types # "structural" THEN p.types
     ELSE IF ~hasIn THEN "exogenous"
     ELSE IF ~hasOut THEN "terminal"
     ELSE "endogenous"

Document(t, p) ==
  [fields |-> p.fields, origins |-> p.origins,
   nodes |-> [i \in 1..Len(t.order) |->
                Node(t.order[i], TypeOf(t, p, t.order[i]), p.dists[i], p.breakers[i])],
   edges |-> [i \in 1..Len(t.arcs) |-> Edge(t.arcs[i][1], t.arcs[i][2], p.effects[i])]]

Documents == {Document(t, p) : t \in Topologies, p \in Parameterisations}

NoModel == [fields |-> {}, origins |-> {}, nodes |-> <<>>, edges |-> <<>>]
EmptyMap == <<>>

\* interventions of the second propagation
InterventionMaps ==
  { EmptyMap,
    "c" :> 2000,
    "b" :> NaN,
    ("a" :> 50000) @@ ("c" :> -300) @@ ("q" :> 100) }

Seeds == [1..SeedLen -> Uniforms]

\* ------------------------------------------------------------------------
\* The state machine: a model document arrives, either as the response
\* generateCausalModel parses or as a model handed over as it is; the model
\* is propagated twice, first without interventions (the baseline), then
\* with the interventions map.
\* ------------------------------------------------------------------------
Init ==
  /\ raw \in Documents
  /\ \/ "response" \in raw.origins /\ pc = "response" /\ model = NoModel
     \/ "direct" \in raw.origins /\ pc = "idle" /\ model = raw
  /\ interventions \in InterventionMaps
  /\ sampleCount \in {1, MaxSampleCount}
  /\ seed \in Seeds
  /\ rngPos = 0
  /\ run = 0
  /\ sorted = <<>>
  /\ idx = 0
  /\ samples = EmptyMap
  /\ baseSamples = EmptyMap
  /\ rawSamples = EmptyMap
  /\ reads = EmptyMap
  /\ produced = EmptyMap
  /\ distributions = EmptyMap
  /\ startPos = EmptyMap
  /\ results = EmptyMap
  /\ nodeSamples = EmptyMap
  /\ nodeDistributions = EmptyMap
  /\ analysis = EmptyMap
  /\ testResults = <<>>
  /\ NoCall
  /\ InitialUi
  /\ NoGeneration

\* llm.ts generateCausalModel, from the parsed response on
GenerateCausalModel ==
  /\ pc = "response"
  /\ IF ValidStructure(raw)
     THEN /\ model' = fixNodeTypes(ensureConnectedGraph(raw))
          /\ pc' = "idle"
     ELSE /\ model' = model
          /\ pc' = "rejected"
  /\ UNCHANGED <<call, ui, generation, raw, interventions, sampleCount, seed, rngPos, run, sorted, idx, samples,
                 baseSamples, rawSamples, reads, produced, distributions, startPos, results>>

\* the interventions argument of the propagation in progress
CurrentInterventions == IF run = 2 THEN interventions ELSE EmptyMap

\* propagateWithSampling, up to the loop over sorted
StartPropagation ==
  /\ \/ pc = "idle" /\ run' = 1
     \/ pc = "returned" /\ run = 1 /\ run' = 2
  /\ sorted' = topologicalSort(model)
  /\ idx' = 0
  /\ samples' = EmptyMap
  /\ baseSamples' = EmptyMap
  /\ rawSamples' = EmptyMap
  /\ reads' = EmptyMap
  /\ produced' = EmptyMap
  /\ distributions' = EmptyMap
  /\ startPos' = startPos @@ (run' :> rngPos)
  /\ pc' = "loop"
  /\ UNCHANGED <<call, ui, generation, raw, model, interventions, sampleCount, seed, rngPos, results>>

\* samples[id] = vec
Put(map, id, v) == (id :> v) @@ map
Bump(map, id) == Put(map, id, IF id \in DOMAIN map THEN map[id] + 1 ELSE 1)

\* the circuit-breaker block without its !interventions.has(node.id) guard
StabilizeUnguarded(node, vec, intervened) ==
  clampVariance(applyCircuitBreakers(node, vec), MergedBreakers(node.circuitBreakers))

\* the circuit-breaker block at the end of the loop body, which is skipped
\* for an intervened node
Stabilize(node, vec, intervened) ==
  IF intervened THEN vec
  ELSE clampVariance(applyCircuitBreakers(node, vec), MergedBreakers(node.circuitBreakers))

\* Array(sampleCount).fill(interventionValue)
Fill(n, interventionValue) == [i \in 1..n |-> interventionValue]

\* loop body, branch interventions.has(node.id)
Intervene ==
  /\ pc = "loop" /\ idx < Len(sorted)
  /\ LET node == NodeById(model, sorted[idx + 1])
     IN /\ node.id \in DOMAIN CurrentInterventions
        /\ rawSamples' = Put(rawSamples, node.id,
                             Fill(sampleCount, CurrentInterventions[node.id]))
        /\ samples' = Put(samples, node.id, Stabilize(node, rawSamples'[node.id], TRUE))
        /\ produced' = Bump(produced, node.id)
  /\ idx' = idx + 1
  /\ UNCHANGED <<call, ui, generation, raw, model, interventions, sampleCount, seed, rngPos, pc, run, sorted,
                 baseSamples, reads, distributions, startPos, results>>

\* loop body, branch node.type === 'exogenous'
SampleExogenous ==
  /\ pc = "loop" /\ idx < Len(sorted)
  /\ LET node == NodeById(model, sorted[idx + 1])
     IN /\ node.id \notin DOMAIN CurrentInterventions
        /\ node.type = "exogenous"
        /\ \E drawn \in {sampleFromDistribution(node.distribution, sampleCount, rngPos)} :
             /\ rawSamples' = Put(rawSamples, node.id, drawn.vec)
             /\ samples' = Put(samples, node.id, Stabilize(node, drawn.vec, FALSE))
             /\ rngPos' = drawn.nxt
        /\ produced' = Bump(produced, node.id)
  /\ idx' = idx + 1
  /\ UNCHANGED <<call, ui, generation, raw, model, interventions, sampleCount, seed, pc, run, sorted,
                 baseSamples, reads, distributions, startPos, results>>

\* loop body, the endogenous branch
ComputeEndogenous ==
  /\ pc = "loop" /\ idx < Len(sorted)
  /\ LET node == NodeById(model, sorted[idx + 1])
     IN /\ node.id \notin DOMAIN CurrentInterventions
        /\ node.type # "exogenous"
        /\ \E child \in {computeChildSamples(model, node, samples, sampleCount, rngPos)} :
             /\ baseSamples' = Put(baseSamples, node.id, child.base)
             /\ rawSamples' = Put(rawSamples, node.id, child.vec)
             /\ reads' = Put(reads, node.id, child.reads)
             /\ samples' = Put(samples, node.id, Stabilize(node, child.vec, FALSE))
             /\ rngPos' = child.nxt
        /\ produced' = Bump(produced, node.id)
  /\ idx' = idx + 1
  /\ UNCHANGED <<call, ui, generation, raw, model, interventions, sampleCount, seed, pc, run, sorted,
                 distributions, startPos, results>>

\* propagateWithSampling, after the loop: the KDE summaries and the return
FinishPropagation ==
  /\ pc = "loop" /\ idx = Len(sorted)
  /\ distributions' = [id \in DOMAIN samples |-> samplesToKDE(samples[id])]
  /\ results' = results @@ (run :> [samples |-> samples, distributions |-> distributions',
                                    endPos |-> rngPos])
  /\ pc' = "returned"
  /\ UNCHANGED <<call, ui, generation, raw, model, interventions, sampleCount, seed, rngPos, run, sorted, idx,
                 samples, baseSamples, rawSamples, reads, produced, startPos>>

Next ==
  \/ GenerateCausalModel /\ UNCHANGED callers
  \/ StartPropagation /\ UNCHANGED callers
  \/ Intervene /\ UNCHANGED callers
  \/ SampleExogenous /\ UNCHANGED callers
  \/ ComputeEndogenous /\ UNCHANGED callers
  \/ FinishPropagation /\ UNCHANGED callers

Spec == Init /\ [][Next]_vars

\* ------------------------------------------------------------------------
\* inference.ts: propagateWithSampling as one call, which is how the store,
\* the sensitivity analysis and the intervention test use it.  k is the
\* number of Math.random() calls made before the call, endPos the number
\* after it.
\* ------------------------------------------------------------------------
\* the loop body for one node: the array stored in samples[node.id] and
\* the position of Math.random's stream after it
NodeSamples(m, iv, n, node, acc, k) ==
  IF node.id \in DOMAIN iv
  THEN [vec |-> Stabilize(node, Fill(n, iv[node.id]), TRUE) \o <<>>, nxt |-> k]
  ELSE IF node.type = "exogenous"
  THEN Let(sampleFromDistribution(node.distribution, n, k), LAMBDA drawn :
         [vec |-> Stabilize(node, drawn.vec, FALSE) \o <<>>, nxt |-> drawn.nxt])
  ELSE Let(computeChildSamples(m, node, acc, n, k), LAMBDA child :
         [vec |-> Stabilize(node, child.vec \o <<>>, FALSE) \o <<>>, nxt |-> child.nxt])

\* one pass of the loop over sorted.  The state of the loop: i, the number
\* of nodes done, samples, and nxt, the position of Math.random's stream
PropagateStep(m, iv, n, order, st) ==
  Let(NodeSamples(m, iv, n, NodeById(m, order[st.i + 1]), st.samples, st.nxt), LAMBDA s :
    [i |-> st.i + 1, samples |-> Put(st.samples, order[st.i + 1], s.vec), nxt |-> s.nxt])

RECURSIVE PropagateLoop(_, _, _, _, _)
PropagateLoop(m, iv, n, order, st) ==
  IF st.i >= Len(order) THEN st
  ELSE PropagateLoop(m, iv, n, order, PropagateStep(m, iv, n, order, st))

propagateWithSampling(m, iv, n, k) ==
  Let(PropagateLoop(m, iv, n, topologicalSort(m), [i |-> 0, samples |-> EmptyMap, nxt |-> k]),
      LAMBDA r :
    [samples |-> r.samples,
     distributions |-> [id \in DOMAIN r.samples |-> samplesToKDE(r.samples[id])],
     endPos |-> r.nxt])

\* ------------------------------------------------------------------------
\* sensitivity.ts: runSensitivityAnalysis.  Of a returned analysis the
\* model keeps results and summary.strongEffects, weakEffects and
\* bottlenecks (asymmetricEffects and suspectedBottleneck are left out).
\* ------------------------------------------------------------------------
findExogenousNodes(m) == SelectSeq(m.nodes, LAMBDA n : n.type = "exogenous")

\* the ids of the nodes without an outgoing edge, in document order
findLeafNodes(m) ==
  SelectSeq(IdsInOrder(m), LAMBDA id : \A i \in 1..Len(m.edges) : m.edges[i].source # id)

\* the for loop over model.edges for one dequeued node
RECURSIVE ScanEdges(_, _, _, _)
ScanEdges(m, current, i, downstream) ==
  IF i > Len(m.edges) THEN downstream
  ELSE LET edge == m.edges[i]
       IN IF edge.source = current /\ \A j \in 1..Len(downstream) : downstream[j] # edge.target
          THEN ScanEdges(m, current, i + 1, Append(downstream, edge.target))
          ELSE ScanEdges(m, current, i + 1, downstream)

\* the while loop; downstream lists the Set in insertion order, and every
\* id added to the Set is pushed on the queue
RECURSIVE DownstreamLoop(_, _, _)
DownstreamLoop(m, queue, downstream) ==
  IF Len(queue) = 0 THEN downstream
  ELSE LET found == ScanEdges(m, Head(queue), 1, downstream)
       IN DownstreamLoop(m, Tail(queue) \o SubSeq(found, Len(downstream) + 1, Len(found)),
                         found)

\* only the targets of the edges that leave nodeId
DirectTargets(m, nodeId) == ScanEdges(m, nodeId, 1, <<>>)

findDownstreamNodes(m, nodeId) == DownstreamLoop(m, <<nodeId>>, <<>>)

interventionLevels ==
  << [label |-> "50% decrease", multiplier |-> 50],
     [label |-> "25% decrease", multiplier |-> 75],
     [label |-> "25% increase", multiplier |-> 125],
     [label |-> "50% increase", multiplier |-> 150] >>

\* baseVal !== 0 ? ((intVal - baseVal) / Math.abs(baseVal)) * 100 : 0
PctChange(baseVal, intVal) ==
  IF baseVal # 0
  THEN FMul(FDiv(FSub(intVal, baseVal), FAbs(baseVal)), 100 * Scale)
  ELSE 0

\* one NodeImpact
Impact(m, nodeId, baseVal, intVal) ==
  [nodeId |-> nodeId,
   nodeLabel |-> NodeById(m, nodeId).label,
   baseline |-> baseVal,
   intervened |-> intVal,
   absoluteChange |-> FSub(intVal, baseVal),
   pctChange |-> PctChange(baseVal, intVal)]

\* the value a call yields when it throws
Threw == [threw |-> TRUE]

\* the body of the loop over interventionLevels: one propagation and its
\* impacts.  mean(result.samples[nodeId]) throws a TypeError when the
\* result has no vector for a downstream id.  (call: the interventions map
\* and the returned samples of the propagation, kept for the properties)
LevelRun(m, exoNode, prior, downstream, level, baselineMeans, n, k) ==
  LET interventionValue == FMul(prior, level.multiplier)
  IN Let(propagateWithSampling(m, exoNode.id :> interventionValue, n, k), LAMBDA result :
       IF \E j \in 1..Len(downstream) : downstream[j] \notin DOMAIN result.samples
       THEN Threw
       ELSE [threw |-> FALSE,
             level |-> level.label,
             multiplier |-> level.multiplier,
             value |-> interventionValue,
             impacts |-> [j \in 1..Len(downstream) |->
                            Impact(m, downstream[j], baselineMeans[downstream[j]],
                                   MeanOf(result.samples[downstream[j]]))],
             call |-> [interventions |-> exoNode.id :> interventionValue,
                       startPos |-> k, samples |-> result.samples],
             nxt |-> result.endPos])

\* one pass of the loop over interventionLevels for one exogenous node.
\* The state of the loop: l, the number of levels done, the interventions
\* pushed so far, nxt, and threw, whether a pass has thrown
LevelStep(m, exoNode, prior, downstream, baselineMeans, n, st) ==
  Let(LevelRun(m, exoNode, prior, downstream, interventionLevels[st.l + 1], baselineMeans,
               n, st.nxt),
      LAMBDA r :
        IF r.threw THEN [st EXCEPT !.threw = TRUE]
        ELSE [threw |-> FALSE, l |-> st.l + 1,
              interventions |-> Append(st.interventions, r), nxt |-> r.nxt])

RECURSIVE LevelLoop(_, _, _, _, _, _, _)
LevelLoop(m, exoNode, prior, downstream, baselineMeans, n, st) ==
  IF st.threw \/ st.l >= Len(interventionLevels) THEN st
  ELSE LevelLoop(m, exoNode, prior, downstream, baselineMeans, n,
                 LevelStep(m, exoNode, prior, downstream, baselineMeans, n, st))

\* one pass of the loop over exogenousNodes.  The state of the loop: x, the
\* number of nodes done, the results pushed so far, nxt and threw
ExogenousStep(m, exogenousNodes, baselineMeans, n, st) ==
  LET exoNode == exogenousNodes[st.x + 1]
  IN Let(LevelLoop(m, exoNode, expectedValue(exoNode.distribution),
                   findDownstreamNodes(m, exoNode.id), baselineMeans, n,
                   [threw |-> FALSE, l |-> 0, interventions |-> <<>>, nxt |-> st.nxt]),
         LAMBDA r :
           IF r.threw THEN [st EXCEPT !.threw = TRUE]
           ELSE [threw |-> FALSE, x |-> st.x + 1,
                 results |-> Append(st.results,
                                    [exogenousNodeId |-> exoNode.id,
                                     exogenousNodeLabel |-> exoNode.label,
                                     priorMean |-> expectedValue(exoNode.distribution),
                                     interventions |-> r.interventions]),
                 nxt |-> r.nxt])

RECURSIVE ExogenousLoop(_, _, _, _, _)
ExogenousLoop(m, exogenousNodes, baselineMeans, n, st) ==
  IF st.threw \/ st.x >= Len(exogenousNodes) THEN st
  ELSE ExogenousLoop(m, exogenousNodes, baselineMeans, n,
                     ExogenousStep(m, exogenousNodes, baselineMeans, n, st))

\* A label is a sequence of words.  `${source} → ${target}`: the two labels
\* joined by the separator
Arrow == "->"
EffectKey(sourceLabel, targetLabel) == sourceLabel \o <<Arrow>> \o targetLabel

\* the position of the first separator of a key at or after position i, or 0
RECURSIVE IndexOfArrow(_, _)
IndexOfArrow(key, i) ==
  IF i > Len(key) THEN 0
  ELSE IF key[i] = Arrow THEN i
  ELSE IndexOfArrow(key, i + 1)

\* const [source, target] = key.split(' → ')
SplitKey(key) ==
  LET first == IndexOfArrow(key, 1)
      second == IndexOfArrow(key, first + 1)
  IN [source |-> SubSeq(key, 1, first - 1),
      target |-> SubSeq(key, first + 1, IF second = 0 THEN Len(key) ELSE second - 1)]

\* the body of the loop that fills effectStrengths, a Map from key to entry
\* kept as the sequence of its entries in insertion order
AddImpact(effectStrengths, key, isIncrease, impact) ==
  LET known == \E e \in 1..Len(effectStrengths) : effectStrengths[e].key = key
      entries == IF known THEN effectStrengths
                 ELSE Append(effectStrengths,
                             [key |-> key, increases |-> <<>>, decreases |-> <<>>,
                              absoluteChanges |-> <<>>])
  IN [e \in 1..Len(entries) |->
        IF entries[e].key # key THEN entries[e]
        ELSE [key |-> key,
              increases |-> IF isIncrease
                            THEN Append(entries[e].increases, FAbs(impact.pctChange))
                            ELSE entries[e].increases,
              decreases |-> IF isIncrease THEN entries[e].decreases
                            ELSE Append(entries[e].decreases, FAbs(impact.pctChange)),
              absoluteChanges |-> Append(entries[e].absoluteChanges,
                                         FAbs(impact.absoluteChange))]]

\* the loop over the impacts of one intervention.  The state of the loop:
\* j, the impact to visit next, and the map effectStrengths
RECURSIVE ImpactLoop(_, _, _)
ImpactLoop(sourceLabel, intervention, st) ==
  IF st.j > Len(intervention.impacts) THEN st.effectStrengths
  ELSE ImpactLoop(sourceLabel, intervention,
         [j |-> st.j + 1,
          effectStrengths |->
            AddImpact(st.effectStrengths,
                      EffectKey(sourceLabel, intervention.impacts[st.j].nodeLabel),
                      intervention.multiplier > Scale,
                      intervention.impacts[st.j]) \o <<>>])

\* the loop over the interventions of one result, with i the intervention
\* to visit next
RECURSIVE InterventionLoop(_, _)
InterventionLoop(result, st) ==
  IF st.i > Len(result.interventions) THEN st.effectStrengths
  ELSE InterventionLoop(result,
         [i |-> st.i + 1,
          effectStrengths |->
            ImpactLoop(result.exogenousNodeLabel, result.interventions[st.i],
                       [j |-> 1, effectStrengths |-> st.effectStrengths])])

\* the three nested loops over results, interventions and impacts, with r
\* the result to visit next
RECURSIVE CollectImpacts(_, _)
CollectImpacts(rs, st) ==
  IF st.r > Len(rs) THEN st.effectStrengths
  ELSE CollectImpacts(rs,
         [r |-> st.r + 1,
          effectStrengths |->
            InterventionLoop(rs[st.r], [i |-> 1, effectStrengths |-> st.effectStrengths])])

\* list.length > 0 ? list.reduce((a, b) => a + b, 0) / list.length : 0
Average(list) == IF Len(list) > 0 THEN FDiv(SumFrom(list, 1, 0), Len(list) * Scale) ELSE 0

\* one EffectSummary, from one entry of effectStrengths
EffectSummary(entry) ==
  [source |-> SplitKey(entry.key).source,
   target |-> SplitKey(entry.key).target,
   avgPctChange |-> FDiv(FAdd(Average(entry.increases), Average(entry.decreases)), 2 * Scale),
   avgAbsoluteChange |-> Average(entry.absoluteChanges)]

\* the comparator with its operands exchanged
CompareEffectsSwapped(a, b, descending) ==
  IF descending THEN FSub(a.avgPctChange, b.avgPctChange)
  ELSE FSub(b.avgPctChange, a.avgPctChange)

\* (a, b) => b.avgPctChange - a.avgPctChange for strongEffects (descending),
\* (a, b) => a.avgPctChange - b.avgPctChange for weakEffects
CompareEffects(a, b, descending) ==
  IF descending THEN FSub(b.avgPctChange, a.avgPctChange)
  ELSE FSub(a.avgPctChange, b.avgPctChange)

\* Array.prototype.sort with the comparator, a stable sort; a comparator
\* value that is not positive (NaN included) leaves the pair in place
RECURSIVE InsertEffect(_, _, _)
InsertEffect(s, x, descending) ==
  IF Len(s) = 0 THEN <<x>>
  ELSE IF FGt(CompareEffects(s[Len(s)], x, descending), 0)
       THEN Append(InsertEffect(SubSeq(s, 1, Len(s) - 1), x, descending), s[Len(s)])
  ELSE Append(s, x)
RECURSIVE SortEffects(_, _, _)
SortEffects(s, i, descending) ==
  IF i = 0 THEN <<>>
  ELSE InsertEffect(SortEffects(s, i - 1, descending), s[i], descending)

\* list.slice(0, 10)
TopCount == 10
Slice(list) == SubSeq(list, 1, IF Len(list) < TopCount THEN Len(list) ELSE TopCount)

\* the bottleneck loop over the impacts of the 50% increase of one result
BottlenecksOf(m, result) ==
  LET terminalNodes == {m.nodes[i].id : i \in {j \in 1..Len(m.nodes) : m.nodes[j].type = "terminal"}}
      large == SelectSeq(result.interventions, LAMBDA i : i.multiplier = 150)
      flagged == IF Len(large) = 0 THEN <<>>
                 ELSE SelectSeq(large[1].impacts,
                                LAMBDA impact : /\ impact.nodeId \in terminalNodes
                                                /\ FLt(FAbs(impact.pctChange), 10 * Scale))
  IN [b \in 1..Len(flagged) |->
        [exogenousNode |-> result.exogenousNodeLabel,
         terminalNode |-> flagged[b].nodeLabel,
         inputChange |-> "50% increase",
         terminalPctChange |-> flagged[b].pctChange,
         terminalAbsoluteChange |-> flagged[b].absoluteChange]]

RECURSIVE Bottlenecks(_, _, _)
Bottlenecks(m, rs, r) ==
  IF r > Len(rs) THEN <<>> ELSE BottlenecksOf(m, rs[r]) \o Bottlenecks(m, rs, r + 1)

\* the summary of the returned analysis
Summary(m, rs) ==
  Let(CollectImpacts(rs, [r |-> 1, effectStrengths |-> <<>>]), LAMBDA effectStrengths :
    Let([e \in 1..Len(effectStrengths) |-> EffectSummary(effectStrengths[e])], LAMBDA effects :
      Let(SelectSeq(effects, LAMBDA s : FGt(s.avgPctChange, 5 * Scale)), LAMBDA strongEffects :
        Let(SelectSeq(effects, LAMBDA s : ~FGt(s.avgPctChange, 5 * Scale)
                                          /\ FLt(s.avgPctChange, Scale)), LAMBDA weakEffects :
          [effectStrengths |-> effectStrengths,
           strongEffects |-> Slice(SortEffects(strongEffects, Len(strongEffects), TRUE)),
           weakEffects |-> Slice(SortEffects(weakEffects, Len(weakEffects), FALSE)),
           bottlenecks |-> Bottlenecks(m, rs, 1)]))))

\* runSensitivityAnalysis(model, sampleCount), called after k Math.random()
\* calls.  mean(baseline.samples[node.id]) throws a TypeError for a node
\* the baseline has no vector for.  (baseline, effectStrengths and nxt are
\* kept for the properties)
runSensitivityAnalysis(m, n, k) ==
  Let(propagateWithSampling(m, EmptyMap, n, k), LAMBDA baseline :
    IF \E id \in NodeIds(m) : id \notin DOMAIN baseline.samples THEN Threw
    ELSE Let([id \in NodeIds(m) |-> MeanOf(baseline.samples[id])], LAMBDA baselineMeans :
           Let(ExogenousLoop(m, findExogenousNodes(m), baselineMeans, n,
                             [threw |-> FALSE, x |-> 0, results |-> <<>>,
                              nxt |-> baseline.endPos]),
               LAMBDA r :
                 IF r.threw THEN Threw
                 ELSE [threw |-> FALSE,
                       sampleCount |-> n,
                       baseline |-> [startPos |-> k, samples |-> baseline.samples],
                       results |-> r.results,
                       summary |-> Summary(m, r.results),
                       nxt |-> r.nxt])))

\* ------------------------------------------------------------------------
\* The sensitivity analysis of a model: the inputs and the state machine
\* ------------------------------------------------------------------------
\* node.label, a sequence of words: every node its own label, or every node
\* but "a" the same label
LabelOf(id, scheme) ==
  IF scheme = "unique" THEN <<"Node", id>>
  ELSE IF id = "a" THEN <<"Input">>
  ELSE <<"Node">>

Labelled(doc, scheme) ==
  [doc EXCEPT !.nodes = [i \in 1..Len(doc.nodes) |->
                           [label |-> LabelOf(doc.nodes[i].id, scheme)] @@ doc.nodes[i]]]

\* two exogenous sources, each with an edge to every one of six terminal
\* nodes; the coefficient of the edges into the j-th target is step * j
FanTargets == <<"t1", "t2", "t3", "t4", "t5", "t6">>
FanModel(step) ==
  [fields |-> {"nodes", "edges", "zones"}, origins |-> {"direct"},
   nodes |-> [i \in 1..2 |->
                Node(<<"s1", "s2">>[i], "exogenous", Continuous("normal", <<10000, 1000>>),
                     MinMax(0, 50000))]
             \o [j \in 1..Len(FanTargets) |->
                   Node(FanTargets[j], "terminal", Continuous("normal", <<5000, 500>>),
                        MinMax(0, 50000))],
   edges |-> [e \in 1..2 * Len(FanTargets) |->
                Edge(<<"s1", "s2">>[((e - 1) \div Len(FanTargets)) + 1],
                     FanTargets[((e - 1) % Len(FanTargets)) + 1],
                     Linear(step * (((e - 1) % Len(FanTargets)) + 1)))]]

\* a yes/no outcome at the end of the documents' node orders
BinaryOutcome ==
  [dists |-> <<Binary(50), Continuous("normal", <<500, 50>>),
               Continuous("normal", <<1000, 100>>)>>,
   effects |-> <<Linear(50), Linear(100), Linear(30)>>,
   breakers |-> <<NoBreakers, NoBreakers, NoBreakers>>,
   types |-> "structural", fields |-> {"nodes", "edges", "zones"},
   origins |-> {"direct"}]

SensitivityModels ==
  {Labelled(Document(t, p), scheme) :
     t \in Topologies,
     p \in {q \in Parameterisations : q.types \in {"structural", "exogenous"}
                                      /\ "zones" \in q.fields} \cup {BinaryOutcome},
     scheme \in {"unique", "shared"}}
  \cup {Labelled(FanModel(step), "unique") : step \in {0, 15}}

InitSensitivity ==
  /\ model \in SensitivityModels
  /\ sampleCount \in {1, MaxSampleCount}
  /\ seed \in Seeds
  /\ rngPos = 0
  /\ pc = "idle"
  /\ analysis = EmptyMap
  /\ raw = NoModel
  /\ interventions = EmptyMap
  /\ run = 0
  /\ sorted = <<>>
  /\ idx = 0
  /\ samples = EmptyMap
  /\ baseSamples = EmptyMap
  /\ rawSamples = EmptyMap
  /\ reads = EmptyMap
  /\ produced = EmptyMap
  /\ distributions = EmptyMap
  /\ startPos = EmptyMap
  /\ results = EmptyMap
  /\ nodeSamples = EmptyMap
  /\ nodeDistributions = EmptyMap
  /\ testResults = <<>>
  /\ NoCall
  /\ InitialUi
  /\ NoGeneration

\* a call of runSensitivityAnalysis(model, sampleCount)
RunSensitivityAnalysis ==
  /\ pc = "idle"
  /\ \E returned \in {runSensitivityAnalysis(model, sampleCount, rngPos)} :
       /\ analysis' = returned
       /\ pc' = IF returned.threw THEN "threw" ELSE "returned"
       /\ rngPos' = IF returned.threw THEN rngPos ELSE returned.nxt
  /\ UNCHANGED <<call, ui, generation, raw, model, interventions, sampleCount, seed, run, sorted, idx, samples,
                 baseSamples, rawSamples, reads, produced, distributions, startPos, results,
                 nodeSamples, nodeDistributions, testResults>>

NextSensitivity == RunSensitivityAnalysis

SpecSensitivity == InitSensitivity /\ [][NextSensitivity]_vars

\* ------------------------------------------------------------------------
\* graphStore.ts: the store, with its fields model, interventions,
\* sampleCount, nodeSamples and nodeDistributions.  null is NoModel.
\* Math.random returns seed in a cycle, so the store keeps rngPos modulo the
\* length of the cycle.
\* ------------------------------------------------------------------------
\* recompute that returns without propagating
RecomputeSkipped(m, iv, n, k, old) == old

\* recompute: the computed state and the Math.random position it leaves.
\* (the catch block is never entered: propagateWithSampling does not throw
\* on the models, interventions and sample counts of this model)
Recompute(m, iv, n, k, old) ==
  IF m = NoModel THEN old
  ELSE Let(propagateWithSampling(m, iv, n, k), LAMBDA r :
         [nodeSamples |-> r.samples, nodeDistributions |-> r.distributions,
          rngPos |-> r.endPos % SeedLen])

\* set(...) of the inputs followed by get().recompute()
SetAndRecompute(m, iv, n) ==
  /\ model' = m
  /\ interventions' = iv
  /\ sampleCount' = n
  /\ \E computed \in {Recompute(m, iv, n, rngPos,
                                  [nodeSamples |-> nodeSamples,
                                   nodeDistributions |-> nodeDistributions,
                                   rngPos |-> rngPos])} :
       /\ nodeSamples' = computed.nodeSamples
       /\ nodeDistributions' = computed.nodeDistributions
       /\ rngPos' = computed.rngPos
  /\ UNCHANGED <<call, generation, selectedNodeId, selectedEdgeId, raw, seed, pc, run,
                 sorted, idx, samples, baseSamples, rawSamples, reads, produced,
                 distributions, startPos, results, analysis, testResults>>

\* the models handed to setModel, the node ids and values of interventions
\* and the effect an edge is given in the inspector
StoreModels ==
  {Document(t, p) :
     t \in {u \in Topologies : u.order \in {<<"c", "b", "a">>, <<"b", "a">>}},
     p \in {q \in Parameterisations : q.origins = {"direct"}
                                      /\ q.dists[1].type = "continuous"}}
StoreNodeIds == {"a", "c"}
StoreValues == {2000}
StoreEffects == {Linear(-100)}

\* Object.fromEntries of a Map without one key
Without(map, id) == [k \in DOMAIN map \ {id} |-> map[k]]

\* model.edges.map(edge => edge.source === sourceId && edge.target === targetId ? { ...edge, effect } : edge)
updatedEdges(m, sourceId, targetId, effect) ==
  [i \in 1..Len(m.edges) |->
     IF m.edges[i].source = sourceId /\ m.edges[i].target = targetId
     THEN [m.edges[i] EXCEPT !.effect = effect]
     ELSE m.edges[i]]

InitStore ==
  /\ model = NoModel
  /\ interventions = EmptyMap
  /\ nodeSamples = EmptyMap
  /\ nodeDistributions = EmptyMap
  /\ sampleCount = MaxSampleCount
  /\ seed \in Seeds
  /\ rngPos = 0
  /\ pc = "store"
  /\ raw = NoModel
  /\ run = 0
  /\ sorted = <<>>
  /\ idx = 0
  /\ samples = EmptyMap
  /\ baseSamples = EmptyMap
  /\ rawSamples = EmptyMap
  /\ reads = EmptyMap
  /\ produced = EmptyMap
  /\ distributions = EmptyMap
  /\ startPos = EmptyMap
  /\ results = EmptyMap
  /\ analysis = EmptyMap
  /\ testResults = <<>>
  /\ NoCall
  /\ InitialUi
  /\ NoGeneration

\* set({ model, error: null }); get().recompute()
setModel ==
  /\ \E m \in StoreModels : SetAndRecompute(m, interventions, sampleCount)
  /\ error' = null

setIntervention ==
  \E nodeId \in StoreNodeIds, value \in StoreValues :
    /\ SetAndRecompute(model, Put(Without(interventions, nodeId), nodeId, value), sampleCount)
    /\ UNCHANGED error

clearIntervention ==
  \E nodeId \in StoreNodeIds :
    /\ SetAndRecompute(model, Without(interventions, nodeId), sampleCount)
    /\ UNCHANGED error

clearAllInterventions == SetAndRecompute(model, EmptyMap, sampleCount) /\ UNCHANGED error

setSampleCount ==
  /\ \E count \in {1, MaxSampleCount} : SetAndRecompute(model, interventions, count)
  /\ UNCHANGED error

updateEdgeEffect ==
  /\ model # NoModel
  /\ \E sourceId \in {"a"}, targetId \in {"b"}, effect \in StoreEffects :
       SetAndRecompute([model EXCEPT !.edges = updatedEdges(model, sourceId, targetId, effect)],
                       interventions, sampleCount)
  /\ UNCHANGED error

NextStore ==
  \/ setModel
  \/ setIntervention
  \/ clearIntervention
  \/ clearAllInterventions
  \/ setSampleCount
  \/ updateEdgeEffect

SpecStore == InitStore /\ [][NextStore]_vars

\* ------------------------------------------------------------------------
\* llm.ts: the repair steps of generateCausalModel taken one at a time on a
\* parsed document: ensureConnectedGraph, then fixNodeTypes; fixNodeTypes
\* is also applied to a document as it was parsed.
\* ------------------------------------------------------------------------
\* documents without edges, with three nodes and with one, and a document
\* whose two nodes are joined only through an id that names no node
ParsedTopologies ==
  Topologies \cup { [order |-> <<"a", "b", "c">>, arcs |-> <<>>],
                    [order |-> <<"a">>, arcs |-> <<>>],
                    [order |-> <<"a", "b">>, arcs |-> << <<"b", "z">>, <<"z", "a">> >>] }
ParsedDocuments == {Document(t, p) : t \in ParsedTopologies, p \in Parameterisations}

InitRepair ==
  /\ raw \in ParsedDocuments
  /\ model = raw
  /\ pc = "parsed"
  /\ interventions = EmptyMap
  /\ sampleCount = 1
  /\ seed = [i \in 1..SeedLen |-> 0]
  /\ rngPos = 0
  /\ run = 0
  /\ sorted = <<>>
  /\ idx = 0
  /\ samples = EmptyMap
  /\ baseSamples = EmptyMap
  /\ rawSamples = EmptyMap
  /\ reads = EmptyMap
  /\ produced = EmptyMap
  /\ distributions = EmptyMap
  /\ startPos = EmptyMap
  /\ results = EmptyMap
  /\ nodeSamples = EmptyMap
  /\ nodeDistributions = EmptyMap
  /\ analysis = EmptyMap
  /\ testResults = <<>>
  /\ NoCall
  /\ InitialUi
  /\ NoGeneration

\* causalModel = ensureConnectedGraph(causalModel)
EnsureConnectedGraph ==
  /\ pc = "parsed"
  /\ model' = ensureConnectedGraph(model)
  /\ pc' = "connected"
  /\ UNCHANGED <<call, ui, generation, raw, interventions, sampleCount, seed, rngPos, run, sorted, idx, samples,
                 baseSamples, rawSamples, reads, produced, distributions, startPos, results,
                 nodeSamples, nodeDistributions, analysis, testResults>>

\* causalModel = fixNodeTypes(causalModel)
FixNodeTypes ==
  /\ pc \in {"parsed", "connected"}
  /\ model' = fixNodeTypes(model)
  /\ pc' = IF pc = "connected" THEN "repaired" ELSE "typed"
  /\ UNCHANGED <<call, ui, generation, raw, interventions, sampleCount, seed, rngPos, run, sorted, idx, samples,
                 baseSamples, rawSamples, reads, produced, distributions, startPos, results,
                 nodeSamples, nodeDistributions, analysis, testResults>>

NextRepair ==
  \/ EnsureConnectedGraph
  \/ FixNodeTypes

SpecRepair == InitRepair /\ [][NextRepair]_vars

\* ------------------------------------------------------------------------
\* README.md: the intervention test (testModel, runInterventionTest) and
\* its embedded models.  The helpers mean, findExogenousNodes, findLeafNodes
\* and findDownstreamNodes of the test are those of sensitivity.ts.
\* ------------------------------------------------------------------------
TestNode(id, label, type, params, minValue, maxValue) ==
  [label |-> label]
    @@ Node(id, type, Continuous("normal", params), MinMax(minValue, maxValue))

SIMPLE_LINEAR_MODEL ==
  [fields |-> {"nodes", "edges", "zones"}, origins |-> {"direct"},
   nodes |-> << TestNode("a", <<"Input", "A">>, "exogenous", <<10000, 1000>>, 0, 50000),
                TestNode("b", <<"Node", "B">>, "endogenous", <<5000, 500>>, 0, 20000),
                TestNode("c", <<"Node", "C">>, "endogenous", <<2500, 300>>, 0, 10000),
                TestNode("d", <<"Output", "D">>, "terminal", <<1000, 100>>, 0, 5000) >>,
   edges |-> << Edge("a", "b", Linear(80)),
                Edge("b", "c", Linear(70)),
                Edge("c", "d", Linear(60)) >>]

THRESHOLD_MODEL ==
  [fields |-> {"nodes", "edges", "zones"}, origins |-> {"direct"},
   nodes |-> << TestNode("input", <<"Risk", "Level">>, "exogenous", <<5000, 1000>>, 0, 10000),
                TestNode("gate", <<"Risk", "Gate">>, "endogenous", <<10000, 2000>>, 0, 30000),
                TestNode("output", <<"Premium">>, "terminal", <<5000, 1000>>, 0, 20000) >>,
   edges |-> << Edge("input", "gate", Linear(90)),
                Edge("gate", "output",
                     [Threshold(8000, 20, 70) EXCEPT !.smoothness = 200]) >>]

MULTIPLICATIVE_MODEL ==
  [fields |-> {"nodes", "edges", "zones"}, origins |-> {"direct"},
   nodes |-> << TestNode("growth", <<"Growth", "Rate">>, "exogenous", <<500, 100>>,
                         -500, 2000),
                TestNode("compound", <<"Compounded", "Value">>, "terminal", <<10000, 1000>>,
                         1000, 50000) >>,
   edges |-> << Edge("growth", "compound", Multiplicative(200, 500)) >>]

EmbeddedModels == {SIMPLE_LINEAR_MODEL, THRESHOLD_MODEL, MULTIPLICATIVE_MODEL}

\* const interventionLevels = [0.25, 0.5, 0.75, 1.5, 2.0]
testInterventionLevels == <<25, 50, 75, 150, 200>>

\* one InterventionResult
InterventionResult(m, nodeId, baselineMean, intervenedMean) ==
  [nodeId |-> nodeId,
   nodeLabel |-> NodeById(m, nodeId).label,
   baseline |-> baselineMean,
   intervened |-> intervenedMean,
   pctChange |-> PctChange(baselineMean, intervenedMean)]

\* the issues of one test: a leaf that changed by less than 1% although the
\* input changed by 25% or more, and no downstream node above 1% although
\* the input changed by 10% or more
IssuesOf(leafResults, allDownstreamResults, inputChange) ==
  (IF FGe(inputChange, 25 * Scale)
   THEN SelectSeq([i \in 1..Len(leafResults) |->
                     IF FLt(FAbs(leafResults[i].pctChange), Scale)
                     THEN <<"barely changed", leafResults[i].nodeId>>
                     ELSE <<>>],
                  LAMBDA issue : issue # <<>>)
   ELSE <<>>)
  \o (IF ~(\E i \in 1..Len(allDownstreamResults) :
              FGt(FAbs(allDownstreamResults[i].pctChange), Scale))
         /\ FGe(inputChange, 10 * Scale)
      THEN << <<"no downstream nodes changed">> >>
      ELSE <<>>)

\* runInterventionTest(model, exogenousNodeId, interventionMultiplier,
\* baselineSamples), with the position of Math.random's stream before (k)
\* and after (nxt) the call
runInterventionTest(m, exogenousNodeId, interventionMultiplier, baselineSamples, n, k) ==
  Let(FMul(expectedValue(NodeById(m, exogenousNodeId).distribution), interventionMultiplier),
      LAMBDA interventionValue :
    Let(propagateWithSampling(m, exogenousNodeId :> interventionValue, n, k), LAMBDA result :
      Let(findDownstreamNodes(m, exogenousNodeId), LAMBDA downstreamNodes :
        Let([j \in 1..Len(downstreamNodes) |->
               InterventionResult(m, downstreamNodes[j],
                                  MeanOf(baselineSamples[downstreamNodes[j]]),
                                  MeanOf(result.samples[downstreamNodes[j]]))],
            LAMBDA allDownstreamResults :
          Let(SelectSeq(allDownstreamResults,
                        LAMBDA r : \E l \in 1..Len(findLeafNodes(m)) :
                                     findLeafNodes(m)[l] = r.nodeId),
              LAMBDA leafResults :
            Let(IssuesOf(leafResults, allDownstreamResults,
                         FAbs(FMul(FSub(interventionMultiplier, Scale), 100 * Scale))),
                LAMBDA issues :
              [exogenousNode |-> NodeById(m, exogenousNodeId).label,
               exogenousNodeId |-> exogenousNodeId,
               multiplier |-> interventionMultiplier,
               interventionValue |-> interventionValue,
               baselineValue |-> expectedValue(NodeById(m, exogenousNodeId).distribution),
               leafResults |-> leafResults,
               allDownstreamResults |-> allDownstreamResults,
               passed |-> issues = <<>>,
               issues |-> issues,
               nxt |-> result.endPos]))))))

\* the tests testModel has still to run: one for every exogenous node and
\* every intervention level, in the order of its two loops
TestPlan(m) ==
  [t \in 1..Len(findExogenousNodes(m)) * Len(testInterventionLevels) |->
     [exogenousNodeId |->
        findExogenousNodes(m)[((t - 1) \div Len(testInterventionLevels)) + 1].id,
      multiplier |-> testInterventionLevels[((t - 1) % Len(testInterventionLevels)) + 1]]]

InitTest ==
  /\ model \in EmbeddedModels
  /\ sampleCount \in {1, MaxSampleCount}
  /\ seed \in Seeds
  /\ rngPos = 0
  /\ pc = "start"
  /\ testResults = <<>>
  /\ NoCall
  /\ InitialUi
  /\ NoGeneration
  /\ baseSamples = EmptyMap
  /\ raw = NoModel
  /\ interventions = EmptyMap
  /\ run = 0
  /\ sorted = <<>>
  /\ idx = 0
  /\ samples = EmptyMap
  /\ rawSamples = EmptyMap
  /\ reads = EmptyMap
  /\ produced = EmptyMap
  /\ distributions = EmptyMap
  /\ startPos = EmptyMap
  /\ results = EmptyMap
  /\ nodeSamples = EmptyMap
  /\ nodeDistributions = EmptyMap
  /\ analysis = EmptyMap

\* testModel, up to its loops: const baseline = propagateWithSampling(model,
\* new Map()) and the copy into baselineSamples
RunBaseline ==
  /\ pc = "start"
  /\ \E baseline \in {propagateWithSampling(model, EmptyMap, sampleCount, rngPos)} :
       /\ baseSamples' = baseline.samples
       /\ rngPos' = baseline.endPos
  /\ pc' = "testing"
  /\ UNCHANGED <<call, ui, generation, raw, model, interventions, sampleCount, seed, run, sorted, idx, samples,
                 rawSamples, reads, produced, distributions, startPos, results,
                 nodeSamples, nodeDistributions, analysis, testResults>>

\* one pass of the inner loop of testModel: results.push(runInterventionTest(
\* model, exoNode.id, multiplier, baselineSamples))
RunInterventionTest ==
  /\ pc = "testing"
  /\ Len(testResults) < Len(TestPlan(model))
  /\ \E testResult \in {runInterventionTest(model,
                            TestPlan(model)[Len(testResults) + 1].exogenousNodeId,
                            TestPlan(model)[Len(testResults) + 1].multiplier,
                            baseSamples, sampleCount, rngPos)} :
       /\ testResults' = Append(testResults, testResult)
       /\ rngPos' = testResult.nxt
  /\ pc' = IF Len(testResults) + 1 = Len(TestPlan(model)) THEN "tested" ELSE "testing"
  /\ UNCHANGED <<call, ui, generation, raw, model, interventions, sampleCount, seed, run, sorted, idx, samples,
                 baseSamples, rawSamples, reads, produced, distributions, startPos, results,
                 nodeSamples, nodeDistributions, analysis>>

NextTest ==
  \/ RunBaseline
  \/ RunInterventionTest

SpecTest == InitTest /\ [][NextTest]_vars

\* ------------------------------------------------------------------------
\* Properties
\* ------------------------------------------------------------------------
\* the arcs of a model, its parent relation and its ancestor relation
Arcs(m) == {<<m.edges[i].source, m.edges[i].target>> : i \in 1..Len(m.edges)}
Parents(m, id) == {a[1] : a \in {x \in Arcs(m) : x[2] = id}}
RECURSIVE AncestorClosure(_, _)
AncestorClosure(m, S) ==
  LET more == S \cup UNION {Parents(m, id) : id \in S}
  IN IF more = S THEN S ELSE AncestorClosure(m, more)
Ancestors(m, id) == AncestorClosure(m, Parents(m, id))

\* a model propagate is meant for: every arc joins two nodes, no cycle
EndpointsExist(m) == \A a \in Arcs(m) : a[1] \in NodeIds(m) /\ a[2] \in NodeIds(m)
Acyclic(m) == \A id \in NodeIds(m) : id \notin Ancestors(m, id)
WellFormed(m) == EndpointsExist(m) /\ Acyclic(m)

\* the interventions argument of propagation r
InterventionsOf(r) == IF r = 2 THEN interventions ELSE EmptyMap
Returned(r) == r \in DOMAIN results

\* C1: every vector a propagation returns has sampleCount entries, every one
\* of them a finite number (no NaN, no +Infinity, no -Infinity), and a
\* well-formed model has a vector for every node, whatever the distributions,
\* effects and interventions are.
C1_VectorsCompleteAndFinite ==
  \A r \in DOMAIN results :
    /\ WellFormed(model) => NodeIds(model) \subseteq DOMAIN results[r].samples
    /\ \A id \in DOMAIN results[r].samples :
         /\ Len(results[r].samples[id]) = sampleCount
         /\ \A i \in 1..sampleCount : IsFinite(results[r].samples[id][i])

\* C2: in the propagation with interventions, the vector of an intervened node
\* is sampleCount copies of the intervention value from the moment it is
\* written to the returned result: nothing of its parents, its bounds, its
\* prior or its variance limit enters it; and every intervened node of a
\* well-formed model is in the result.
C2_InterventionIsConstantVector ==
  run = 2 =>
    /\ \A id \in DOMAIN samples \cap DOMAIN interventions :
         samples[id] = [i \in 1..sampleCount |-> interventions[id]]
    /\ Returned(2) =>
         /\ \A id \in DOMAIN results[2].samples \cap DOMAIN interventions :
              results[2].samples[id] = [i \in 1..sampleCount |-> interventions[id]]
         /\ WellFormed(model) =>
              (DOMAIN interventions \cap NodeIds(model)) \subseteq DOMAIN results[2].samples

\* a returned intervened node that has a parent and whose intervention value
\* lies below its minValue
C2_Witness ==
  /\ Returned(2)
  /\ \E id \in DOMAIN interventions \cap DOMAIN results[2].samples :
       LET node == NodeById(model, id)
       IN /\ Parents(model, id) \cap DOMAIN results[2].samples # {}
          /\ node.circuitBreakers.minValue # Undef
          /\ FLt(interventions[id], node.circuitBreakers.minValue)
          /\ results[2].samples[id] = [i \in 1..sampleCount |-> interventions[id]]

\* C3: every returned sample of a node that is not intervened lies within the
\* node's minValue and maxValue, whatever priorWeight and maxStdDevRatio are.
C3_SamplesWithinBounds ==
  \A r \in DOMAIN results :
    \A id \in DOMAIN results[r].samples \ DOMAIN InterventionsOf(r) :
      LET cb == NodeById(model, id).circuitBreakers
          vec == results[r].samples[id]
      IN \A i \in 1..Len(vec) :
           /\ cb.minValue # Undef => FGe(vec[i], cb.minValue)
           /\ cb.maxValue # Undef => FLe(vec[i], cb.maxValue)

\* C4: sample i of a computed child is the fold, over its parent edges, of
\* the effects applied to the child's own i-th base draw and the i-th sample
\* of each parent: every read of a parent vector made for sample i is at
\* index i, and the value is the one a computation that is handed nothing but
\* entry i of every vector gives.
C4_SampleIndexCorrespondence ==
  \A id \in DOMAIN baseSamples :
    /\ Len(rawSamples[id]) = Len(baseSamples[id])
    /\ \A rd \in reads[id] : rd[2] = rd[3]
    /\ \A i \in 1..Len(baseSamples[id]) :
         LET entry == [p \in DOMAIN samples |-> <<samples[p][i]>>]
         IN rawSamples[id][i] =
              ApplyParents(model, ParentEdges(model, id), 1, entry, 1, baseSamples[id][i])

\* a child computed from a parent whose samples differ from index to index,
\* with an effect that moved the child away from its base draw
C4_Witness ==
  \E id \in DOMAIN baseSamples :
    /\ WellFormed(model)
    /\ sampleCount > 1
    /\ \E p \in Parents(model, id) \cap DOMAIN samples : samples[p][1] # samples[p][2]
    /\ \E i \in 1..sampleCount :
         IsFinite(rawSamples[id][i]) /\ rawSamples[id][i] # baseSamples[id][i]

\* the ids of a sequence
Range(seq) == {seq[i] : i \in 1..Len(seq)}

\* C5: the order topologicalSort returns has no node twice and has every
\* parent of a node before the node; for a well-formed model it has every
\* node. Propagation writes the vectors in that order: the nodes written so
\* far are the first idx nodes of the order, each written once.
C5_TopologicalEmission ==
  run > 0 =>
    /\ \A i, j \in 1..Len(sorted) : sorted[i] = sorted[j] => i = j
    /\ Range(sorted) \subseteq NodeIds(model)
    /\ \A j \in 1..Len(sorted) :
         Parents(model, sorted[j]) \subseteq {sorted[k] : k \in 1..(j - 1)}
    /\ WellFormed(model) => Range(sorted) = NodeIds(model)
    /\ DOMAIN samples = {sorted[k] : k \in 1..idx}
    /\ DOMAIN produced = DOMAIN samples
    /\ \A id \in DOMAIN produced : produced[id] = 1

\* a finished propagation of a well-formed model of three nodes that the
\* document lists in another order than the one they are emitted in
C5_Witness ==
  /\ pc = "returned"
  /\ WellFormed(model)
  /\ Len(sorted) = 3
  /\ sorted # IdsInOrder(model)
  /\ \E j \in 1..3 : Parents(model, sorted[j]) # {}

\* C6: a model whose edges contain a directed cycle yields no samples and no
\* result for any node.
C6_CycleYieldsNoResults ==
  ~Acyclic(model) => samples = EmptyMap /\ results = EmptyMap

\* C7: a model with an edge whose source is not a node yields no samples for
\* any node.
C7_MissingSourceYieldsNoSamples ==
  (\E a \in Arcs(model) : a[1] \notin NodeIds(model)) =>
    samples = EmptyMap /\ results = EmptyMap

\* the type tags of types/causal.ts
DistributionTypes == {"binary", "categorical", "continuous", "bounded", "count", "rate"}
ContinuousDists == {"normal", "lognormal", "beta", "gamma"}
EffectTypes == {"linear", "logistic", "multiplicative", "threshold"}
HasUnknownTag(m) ==
  \/ \E i \in 1..Len(m.nodes) :
       \/ m.nodes[i].distribution.type \notin DistributionTypes
       \/ /\ m.nodes[i].distribution.type = "continuous"
          /\ m.nodes[i].distribution.dist \notin ContinuousDists
  \/ \E i \in 1..Len(m.edges) : m.edges[i].effect.type \notin EffectTypes

\* C8: a document with a distribution or effect whose type tag is not one of
\* the enumerated variants never becomes a model that is propagated: no
\* samples are produced for it.
C8_UnknownTagNeverSampled ==
  HasUnknownTag(raw) => samples = EmptyMap /\ results = EmptyMap

\* the second propagation is handed the draws the first one was handed
SameStream ==
  /\ Returned(1) /\ Returned(2)
  /\ \A j \in 0..(Len(seed) - 1) : Rand(startPos[1] + j) = Rand(startPos[2] + j)

\* C9: when both propagations are handed the same draws and the interventions
\* map intervenes on one node of the model, every ancestor of that node has
\* the same vector with the intervention as without it (and is in the one
\* result exactly if it is in the other).
C9_UpstreamUnchanged ==
  (SameStream /\ Cardinality(DOMAIN interventions \cap NodeIds(model)) = 1) =>
    \A c \in DOMAIN interventions \cap NodeIds(model) :
      \A a \in Ancestors(model, c) \ {c} :
        /\ a \in DOMAIN results[1].samples <=> a \in DOMAIN results[2].samples
        /\ a \in DOMAIN results[1].samples =>
             results[2].samples[a] = results[1].samples[a]

\* both propagations of a well-formed model handed the same draws, one
\* intervened node whose vector the intervention changed, and an ancestor of
\* it whose samples are drawn (they differ from index to index)
C9_Witness ==
  /\ SameStream
  /\ WellFormed(model)
  /\ Cardinality(DOMAIN interventions \cap NodeIds(model)) = 1
  /\ \E c \in DOMAIN interventions \cap DOMAIN results[2].samples :
       /\ results[2].samples[c] # results[1].samples[c]
       /\ \E a \in Ancestors(model, c) :
            /\ sampleCount > 1
            /\ results[1].samples[a][1] # results[1].samples[a][2]
            /\ results[2].samples[a] = results[1].samples[a]

\* C10: two propagations of the same model with no interventions and the
\* same sample count return identical vectors for every node.
C10_RepeatedRunsIdentical ==
  (Returned(1) /\ Returned(2) /\ interventions = EmptyMap) =>
    results[2].samples = results[1].samples

\* the step-by-step propagation and the one-call form return the same
StepwiseAgrees ==
  \A r \in DOMAIN results :
    results[r] = propagateWithSampling(model, InterventionsOf(r), sampleCount, startPos[r])

\* what propagation r returns when it is the only call made
Alone(r) == propagateWithSampling(model, InterventionsOf(r), sampleCount, 0)

\* C11: a propagation leaves the model as the caller handed it over and
\* keeps no state between calls: each of the two propagations of the same
\* model returns the vectors it returns when it is the only call made.
C11_CallsIndependent ==
  /\ run > 0 => model \in {raw, fixNodeTypes(ensureConnectedGraph(raw))}
  /\ \A r \in DOMAIN results : results[r].samples = Alone(r).samples

\* the ids a node reaches along one or more edges
RECURSIVE DescendantClosure(_, _)
DescendantClosure(m, S) ==
  LET more == S \cup {a[2] : a \in {x \in Arcs(m) : x[1] \in S}}
  IN IF more = S THEN S ELSE DescendantClosure(m, more)
Reachable(m, id) == DescendantClosure(m, {a[2] : a \in {x \in Arcs(m) : x[1] = id}})

\* the analysis runSensitivityAnalysis returned, once it has returned
AnalysisReturned == pc = "returned" /\ analysis # EmptyMap /\ ~analysis.threw
ExogenousIds == SelectSeq(IdsInOrder(model), LAMBDA id : NodeById(model, id).type = "exogenous")
Multipliers == <<50, 75, 125, 150>>

\* C12: a returned analysis rests on one baseline propagation without
\* interventions and, for every exogenous node X in turn and every multiplier
\* 0.5, 0.75, 1.25, 1.5 in turn, on one propagation whose only intervention
\* is X = priorMean(X) * multiplier; every such run has one impact for
\* exactly the nodes reachable from X along edges, with pctChange =
\* (intervened - baseline) / |baseline| * 100, or 0 when the baseline mean
\* is 0.
C12_OneRunPerLevelAndImpactPerReachableNode ==
  AnalysisReturned =>
    /\ analysis.baseline.samples
         = propagateWithSampling(model, EmptyMap, sampleCount,
                                 analysis.baseline.startPos).samples
    /\ Len(analysis.results) = Len(ExogenousIds)
    /\ \A x \in 1..Len(analysis.results) :
         LET result == analysis.results[x]
             X == ExogenousIds[x]
         IN /\ result.exogenousNodeId = X
            /\ result.priorMean = expectedValue(NodeById(model, X).distribution)
            /\ Len(result.interventions) = Len(Multipliers)
            /\ \A l \in 1..Len(result.interventions) :
                 LET intervention == result.interventions[l]
                     ids == {intervention.impacts[j].nodeId :
                               j \in 1..Len(intervention.impacts)}
                 IN /\ intervention.multiplier = Multipliers[l]
                    /\ intervention.value = FMul(result.priorMean, Multipliers[l])
                    /\ intervention.call.interventions = (X :> intervention.value)
                    /\ intervention.call.samples
                         = propagateWithSampling(model, X :> intervention.value, sampleCount,
                                                 intervention.call.startPos).samples
                    /\ ids = Reachable(model, X)
                    /\ Len(intervention.impacts) = Cardinality(ids)
                    /\ \A j \in 1..Len(intervention.impacts) :
                         LET impact == intervention.impacts[j]
                             base == MeanOf(analysis.baseline.samples[impact.nodeId])
                             int == MeanOf(intervention.call.samples[impact.nodeId])
                         IN /\ impact.baseline = base
                            /\ impact.intervened = int
                            /\ impact.pctChange =
                                 IF base = 0 THEN 0
                                 ELSE FMul(FDiv(FSub(int, base), FAbs(base)), 100 * Scale)

\* every impact of a returned analysis, with the exogenous node of its run
ImpactsOfAnalysis ==
  UNION {UNION {{[source |-> analysis.results[x].exogenousNodeId,
                  multiplier |-> analysis.results[x].interventions[l].multiplier,
                  impact |-> analysis.results[x].interventions[l].impacts[j]] :
                   j \in 1..Len(analysis.results[x].interventions[l].impacts)} :
                l \in 1..Len(analysis.results[x].interventions)} :
         x \in 1..Len(analysis.results)}

\* a returned analysis of a well-formed model with a non-zero impact and
\* with an impact, for a node two edges away from the exogenous node, whose
\* baseline mean is 0
C12_Witness ==
  /\ AnalysisReturned
  /\ WellFormed(model)
  /\ \E i \in ImpactsOfAnalysis :
       IsFinite(i.impact.pctChange) /\ i.impact.pctChange # 0
  /\ \E i \in ImpactsOfAnalysis :
       /\ <<i.source, i.impact.nodeId>> \notin Arcs(model)
       /\ i.impact.baseline = 0 /\ i.impact.intervened # 0 /\ i.impact.pctChange = 0

\* the reachable nodes without out-edges that the 50% increase of result x
\* changes by less than 10%, as <<exogenous label, node label, pctChange>>
RECURSIVE ExpectedBottlenecks(_)
ExpectedBottlenecks(x) ==
  IF x > Len(analysis.results) THEN <<>>
  ELSE LET large == SelectSeq(analysis.results[x].interventions,
                              LAMBDA i : i.multiplier = 150)[1]
           quiet == SelectSeq(large.impacts,
                              LAMBDA impact :
                                /\ \A a \in Arcs(model) : a[1] # impact.nodeId
                                /\ FLt(FAbs(impact.pctChange), 10 * Scale))
       IN [b \in 1..Len(quiet) |->
             <<analysis.results[x].exogenousNodeLabel, quiet[b].nodeLabel, quiet[b].pctChange>>]
          \o ExpectedBottlenecks(x + 1)

\* C13: the bottleneck warnings of a returned analysis are, for every
\* exogenous node in turn, one warning for every node that is reachable
\* from it, has no out-edges and changes by less than 10% in absolute value
\* in the 1.5x run, and no warning for any other node.
C13_BottleneckForEveryQuietLeaf ==
  AnalysisReturned =>
    [b \in 1..Len(analysis.summary.bottlenecks) |->
       <<analysis.summary.bottlenecks[b].exogenousNode,
         analysis.summary.bottlenecks[b].terminalNode,
         analysis.summary.bottlenecks[b].terminalPctChange>>]
      = ExpectedBottlenecks(1)

\* |pctChange| of node D in the run of exogenous node X with multiplier mult
AbsPctOf(X, D, mult) ==
  LET i == CHOOSE i \in ImpactsOfAnalysis :
             i.source = X /\ i.impact.nodeId = D /\ i.multiplier = mult
  IN FAbs(i.impact.pctChange)

\* C14: the aggregation keeps one entry for every pair of an exogenous
\* node X and a node D reachable from it, and the entry of a pair holds the
\* percentage changes of exactly the four runs of that pair, the two
\* increases and the two decreases; no two pairs share an entry.
C14_OneEntryPerPair ==
  AnalysisReturned =>
    LET pairs == {<<i.source, i.impact.nodeId>> : i \in ImpactsOfAnalysis}
        entries == analysis.summary.effectStrengths
    IN /\ Len(entries) = Cardinality(pairs)
       /\ \A pair \in pairs :
            \E e \in 1..Len(entries) :
              /\ entries[e].key = EffectKey(NodeById(model, pair[1]).label,
                                            NodeById(model, pair[2]).label)
              /\ entries[e].decreases = <<AbsPctOf(pair[1], pair[2], 50),
                                          AbsPctOf(pair[1], pair[2], 75)>>
              /\ entries[e].increases = <<AbsPctOf(pair[1], pair[2], 125),
                                          AbsPctOf(pair[1], pair[2], 150)>>

\* the overall average |pct change| of an aggregated entry: the mean of the
\* average increase and the average decrease
Overall(entry) ==
  FDiv(FAdd(Average(entry.increases), Average(entry.decreases)), 2 * Scale)

\* list holds, in the given order, the first TopCount of the aggregated
\* entries that satisfy qualifies
IsTopOf(list, qualifies(_), before(_, _)) ==
  LET entries == analysis.summary.effectStrengths
      chosen == {e \in 1..Len(entries) : qualifies(Overall(entries[e]))}
      listed(e) == \E i \in 1..Len(list) :
                     /\ list[i].source = SplitKey(entries[e].key).source
                     /\ list[i].target = SplitKey(entries[e].key).target
                     /\ list[i].avgPctChange = Overall(entries[e])
  IN /\ Len(list) = (IF Cardinality(chosen) < TopCount THEN Cardinality(chosen) ELSE TopCount)
     /\ \A i \in 1..Len(list) :
          \E e \in chosen : /\ list[i].source = SplitKey(entries[e].key).source
                            /\ list[i].target = SplitKey(entries[e].key).target
                            /\ list[i].avgPctChange = Overall(entries[e])
     /\ \A i, j \in 1..Len(list) : i < j => ~before(list[j].avgPctChange, list[i].avgPctChange)
     /\ \A e \in chosen :
          listed(e) \/ \A i \in 1..Len(list) : ~before(Overall(entries[e]), list[i].avgPctChange)

\* C15: strongEffects holds the aggregated effects whose overall average
\* exceeds 5, weakEffects those whose overall average is below 1, no effect
\* is in both; strongEffects is in descending and weakEffects in ascending
\* order of that average, and each list is cut to its first 10 entries after
\* the sorting.
C15_StrongAndWeakLists ==
  AnalysisReturned =>
    /\ IsTopOf(analysis.summary.strongEffects, LAMBDA v : FGt(v, 5 * Scale), FGt)
    /\ IsTopOf(analysis.summary.weakEffects, LAMBDA v : FLt(v, Scale), FLt)
    /\ \A i \in 1..Len(analysis.summary.strongEffects) :
         \A j \in 1..Len(analysis.summary.weakEffects) :
           analysis.summary.strongEffects[i] # analysis.summary.weakEffects[j]

\* a returned analysis with more than 10 strong effects of different
\* strengths, of which strongEffects keeps 10
C15_Witness ==
  /\ AnalysisReturned
  /\ Cardinality({e \in 1..Len(analysis.summary.effectStrengths) :
                    FGt(Overall(analysis.summary.effectStrengths[e]), 5 * Scale)}) > TopCount
  /\ Len(analysis.summary.strongEffects) = TopCount
  /\ analysis.summary.strongEffects[1].avgPctChange
       # analysis.summary.strongEffects[TopCount].avgPctChange

HasIncoming(m, id) == \E a \in Arcs(m) : a[2] = id
HasOutgoing(m, id) == \E a \in Arcs(m) : a[1] = id
NodeType(m, id) == NodeById(m, id).type
\* the model fixNodeTypes was applied to
BeforeTyping == IF pc = "repaired" THEN ensureConnectedGraph(raw) ELSE raw

C18_ExogenousHasNoIncomingEdge ==
  pc = "repaired" =>
    \A id \in NodeIds(model) : NodeType(model, id) = "exogenous" => ~HasIncoming(model, id)

\* the ids joined to the ids of S by edges between nodes, in either direction
RECURSIVE UndirectedClosure(_, _)
UndirectedClosure(m, S) ==
  LET links == {a \in Arcs(m) : a[1] \in NodeIds(m) /\ a[2] \in NodeIds(m)}
      more == S \cup {a[2] : a \in {x \in links : x[1] \in S}}
                \cup {a[1] : a \in {x \in links : x[2] \in S}}
  IN IF more = S THEN S ELSE UndirectedClosure(m, more)
\* the connected components of the undirected graph of a model
Components(m) == {UndirectedClosure(m, {id}) : id \in NodeIds(m)}

\* C19: the model ensureConnectedGraph returns has one connected component,
\* which holds every node; it has the nodes of the document and its edges, in
\* the same order, followed by one added edge for every component of the
\* document beyond the first (none when the document is connected).
C19_OneComponentOneEdgePerExtraComponent ==
  pc = "connected" =>
    /\ Components(model) = {NodeIds(model)}
    /\ model.nodes = raw.nodes
    /\ SubSeq(model.edges, 1, Len(raw.edges)) = raw.edges
    /\ Len(model.edges) = Len(raw.edges) + Cardinality(Components(raw)) - 1

\* ensureConnectedGraph has joined a document of three components
C19_Witness ==
  /\ pc = "connected"
  /\ Cardinality(Components(raw)) = 3
  /\ Len(model.edges) = Len(raw.edges) + 2
  /\ Components(model) = {NodeIds(model)}

\* C20: in the embedded test models, setting an exogenous node to 0.25, 0.5,
\* 0.75, 1.5 or 2 times its prior mean changes the mean of every downstream
\* leaf by at least 1% of its baseline mean, and the mean of at least one
\* downstream node by more than 1%.
C20_InterventionsReachTheLeaves ==
  \A t \in 1..Len(testResults) :
    /\ \A i \in 1..Len(testResults[t].leafResults) :
         FGe(FAbs(testResults[t].leafResults[i].pctChange), Scale)
    /\ \E i \in 1..Len(testResults[t].allDownstreamResults) :
         FGt(FAbs(testResults[t].allDownstreamResults[i].pctChange), Scale)

\* ------------------------------------------------------------------------
\* inference.ts: applyEffectToSample called on its own, on one sample of
\* the child, one effect, one sample of the parent and the parent's prior
\* mean
\* ------------------------------------------------------------------------
EffectBaseValues == {-200, 0, 50, 100, NaN, Inf, NInf}
EffectParentValues == {-100, 0, 40, 100, 300, NaN, Inf, NInf}
EffectPriorMeans == {-50, 0, 100}
EdgeEffects ==
  {Linear(50), Linear(-200), Linear(Undef), [Linear(50) EXCEPT !.saturation = 50]}
  \cup {Multiplicative(150, 100), Multiplicative(Undef, Undef), Multiplicative(200, 0)}
  \cup {Threshold(cutoff, 10, 50) : cutoff \in {Undef, -30, 0, 50, 200}}
  \cup {Threshold(100, -300, 800)}
  \cup {Logistic(10, 0), Logistic(Undef, Undef), Logistic(200, 100)}

InitEffect ==
  /\ args \in [baseValue : EffectBaseValues, effect : EdgeEffects,
               parentValue : EffectParentValues, parentPriorMean : EffectPriorMeans]
  /\ ret = Undef
  /\ pc = "called"
  /\ raw = NoModel
  /\ model = NoModel
  /\ interventions = EmptyMap
  /\ sampleCount = 1
  /\ seed = [i \in 1..SeedLen |-> 0]
  /\ rngPos = 0
  /\ run = 0
  /\ sorted = <<>>
  /\ idx = 0
  /\ samples = EmptyMap
  /\ baseSamples = EmptyMap
  /\ rawSamples = EmptyMap
  /\ reads = EmptyMap
  /\ produced = EmptyMap
  /\ distributions = EmptyMap
  /\ startPos = EmptyMap
  /\ results = EmptyMap
  /\ nodeSamples = EmptyMap
  /\ nodeDistributions = EmptyMap
  /\ analysis = EmptyMap
  /\ testResults = <<>>
  /\ InitialUi
  /\ NoGeneration

\* applyEffectToSample(baseValue, effect, parentValue, parentPriorMean)
ApplyEffectToSample ==
  /\ pc = "called"
  /\ ret' = applyEffectToSample(args.baseValue, args.effect, args.parentValue,
                                args.parentPriorMean)
  /\ pc' = "returned"
  /\ UNCHANGED <<args, ui, generation, raw, model, interventions, sampleCount, seed, rngPos,
                 run, sorted, idx, samples, baseSamples, rawSamples, reads, produced,
                 distributions, startPos, results, nodeSamples, nodeDistributions, analysis,
                 testResults>>

NextEffect == ApplyEffectToSample

SpecEffect == InitEffect /\ [][NextEffect]_vars

\* C21: applying an edge effect returns base_value unchanged whenever
\* base_value or parent_value is NaN, +Infinity or -Infinity, and whenever the
\* result the kernel computed is not finite, for each of the four effect
\* types.
C21_NonFinitePassThrough ==
  pc = "returned" =>
    /\ ~IsFinite(args.baseValue) \/ ~IsFinite(args.parentValue) => ret = args.baseValue
    /\ ~IsFinite(ret) => ret = args.baseValue

\* the call was made on finite numbers
FiniteInputs ==
  IsFinite(args.baseValue) /\ IsFinite(args.parentValue) /\ IsFinite(args.parentPriorMean)
\* what was returned is base_value times a multiplier between 0.1 and 10
MultiplierCapped == \E m \in 10..(10 * Scale) : ret = FMul(args.baseValue, m)
\* what was returned has the sign of base_value
SignKept ==
  /\ args.baseValue > 0 => ret > 0
  /\ args.baseValue < 0 => ret < 0
  /\ args.baseValue = 0 => ret = 0

\* C22 (as stated): every application of a Linear, Multiplicative or
\* Threshold effect to finite inputs returns base_value times a multiplier m
\* with 0.1 <= m <= 10, for all parameter values and all parent prior means.
C22_MultiplierCap ==
  pc = "returned" /\ FiniteInputs
    /\ args.effect.type \in {"linear", "multiplicative", "threshold"}
  => MultiplierCapped

\* C22 (amended): every application of a Multiplicative or Threshold effect
\* to finite inputs, and every application of a Linear effect to finite
\* inputs with a parent prior mean of magnitude at least 0.001, returns
\* base_value times a multiplier m with 0.1 <= m <= 10 and so keeps the sign
\* of base_value.  (A Linear effect with a parent prior mean nearer to 0
\* returns base + coefficient * parent_value * 0.01, which no cap bounds.)
C22_MultiplierCapAwayFromZeroPrior ==
  pc = "returned" /\ FiniteInputs
    /\ args.effect.type \in {"linear", "multiplicative", "threshold"}
    /\ ~(args.effect.type = "linear" /\ args.parentPriorMean = 0)
  => MultiplierCapped /\ SignKept

\* a Linear effect whose multiplier 1 + coefficient * deviation = -3 was
\* raised to 0.1, and a Threshold effect whose multiplier was lowered to 10
C22_Witness ==
  /\ pc = "returned"
  /\ args.baseValue = 100
  /\ \/ /\ args.effect = Linear(-200)
        /\ args.parentValue = 300
        /\ args.parentPriorMean = 100
        /\ ret = 10
     \/ /\ args.effect = Threshold(100, -300, 800)
        /\ args.parentValue = 300
        /\ ret = 10 * Scale

\* base_value times the clamped multiplier of a Threshold effect whose
\* deviation of the parent is (parent_value - cutoff) / divisor
ThresholdOver(divisor, baseValue, effect, parentValue, parentPriorMean) ==
  LET cutoff == Nullish(effect.cutoff, parentPriorMean)
      below == Nullish(effect.below, 10)
      above == Nullish(effect.above, 50)
      k == Nullish(effect.smoothness, 2 * Scale)
      weight == FDiv(Scale, FAdd(Scale, FExp(FMul(FNeg(k), FSub(parentValue, cutoff)))))
      effectiveCoefficient == FAdd(FMul(below, FSub(Scale, weight)), FMul(above, weight))
      parentDeviation == FDiv(FSub(parentValue, cutoff), divisor)
  IN FMul(baseValue, ClampMultiplier(FAdd(Scale, FMul(effectiveCoefficient, parentDeviation))))
\* the cutoff of the call: effect.cutoff, or the parent's prior mean
CutoffOfCall == Nullish(args.effect.cutoff, args.parentPriorMean)

\* C23 (as stated): a Threshold effect applied to finite inputs returns
\* base_value times clamp(1 + eff_coef * deviation, 0.1, 10), where deviation
\* is (parent_value - cutoff) / max(|cutoff|, 1), for every cutoff: of
\* magnitude 1 or more, of magnitude between 0 and 1, and 0.
C23_ThresholdDeviationOverMax ==
  pc = "returned" /\ FiniteInputs /\ args.effect.type = "threshold"
  => ret = ThresholdOver(FMax(FAbs(CutoffOfCall), Scale), args.baseValue, args.effect,
                         args.parentValue, args.parentPriorMean)

\* C23 (amended): a Threshold effect applied to finite inputs returns
\* base_value times clamp(1 + eff_coef * deviation, 0.1, 10), where deviation
\* is (parent_value - cutoff) / |cutoff| for every cutoff other than 0,
\* those with 0 < |cutoff| < 1 included, and parent_value - cutoff for
\* cutoff = 0.
C23_ThresholdDeviationOverCutoff ==
  pc = "returned" /\ FiniteInputs /\ args.effect.type = "threshold"
  => ret = ThresholdOver(IF CutoffOfCall = 0 THEN Scale ELSE FAbs(CutoffOfCall),
                         args.baseValue, args.effect, args.parentValue,
                         args.parentPriorMean)

\* a Threshold effect with cutoff 0.5 applied to the parent value 1.0: the
\* deviation is 0.5 / 0.5 = 1, the multiplier 1.4
C23_Witness ==
  /\ pc = "returned"
  /\ args.effect = Threshold(50, 10, 50)
  /\ args.baseValue = 100
  /\ args.parentValue = 100
  /\ ret = 140

\* ------------------------------------------------------------------------
\* distributions.ts: randomBetaSafe, randomGammaSafe and
\* sampleFromDistribution called on their own, after k calls of Math.random()
\* ------------------------------------------------------------------------
SamplerShapes == {5, 50, 100, 250}
SamplerRates == {5, 100, 200}
SampledDists ==
  {NoDist, Categorical(<<>>), Categorical(<<20, 50, 30>>), Binary(50),
   Continuous("normal", <<1000, 100>>), Continuous("beta", <<200, 300>>),
   Continuous("gamma", <<50, 100>>), Bounded(0, 10000, 2500), Count(300), Rate(200, 300)}
SamplerCalls ==
  [fn : {"randomBetaSafe"}, params : SamplerShapes \X SamplerShapes,
   dist : {NoDist}, n : {0}, k : 0..(SeedLen - 1)]
  \cup [fn : {"randomGammaSafe"}, params : SamplerShapes \X SamplerRates,
        dist : {NoDist}, n : {0}, k : 0..(SeedLen - 1)]
  \cup [fn : {"sampleFromDistribution"}, params : {<<>>},
        dist : SampledDists, n : 0..MaxSampleCount, k : 0..(SeedLen - 1)]

InitSampling ==
  /\ args \in SamplerCalls
  /\ seed \in Seeds
  /\ rngPos = args.k
  /\ ret = Undef
  /\ pc = "called"
  /\ raw = NoModel
  /\ model = NoModel
  /\ interventions = EmptyMap
  /\ sampleCount = 1
  /\ run = 0
  /\ sorted = <<>>
  /\ idx = 0
  /\ samples = EmptyMap
  /\ baseSamples = EmptyMap
  /\ rawSamples = EmptyMap
  /\ reads = EmptyMap
  /\ produced = EmptyMap
  /\ distributions = EmptyMap
  /\ startPos = EmptyMap
  /\ results = EmptyMap
  /\ nodeSamples = EmptyMap
  /\ nodeDistributions = EmptyMap
  /\ analysis = EmptyMap
  /\ testResults = <<>>
  /\ InitialUi
  /\ NoGeneration

\* the call returns r
Return(r) ==
  /\ pc = "called"
  /\ ret' = r
  /\ rngPos' = r.nxt
  /\ pc' = "returned"
  /\ UNCHANGED <<args, ui, generation, raw, model, interventions, sampleCount, seed, run,
                 sorted, idx, samples, baseSamples, rawSamples, reads, produced,
                 distributions, startPos, results, nodeSamples, nodeDistributions, analysis,
                 testResults>>

RandomBetaSafe ==
  /\ args.fn = "randomBetaSafe"
  /\ Return(randomBetaSafe(args.params[1], args.params[2], rngPos))

RandomGammaSafe ==
  /\ args.fn = "randomGammaSafe"
  /\ Return(randomGammaSafe(args.params[1], args.params[2], rngPos))

SampleFromDistribution ==
  /\ args.fn = "sampleFromDistribution"
  /\ Return(sampleFromDistribution(args.dist, args.n, rngPos))

NextSampling ==
  \/ RandomBetaSafe
  \/ RandomGammaSafe
  \/ SampleFromDistribution

SpecSampling == InitSampling /\ [][NextSampling]_vars

\* the value an iteration of randomGammaSafe returns when its last
\* randomNormal draw begins after p calls of Math.random(), and whether the
\* iteration accepts it
GammaValueAt(r, d, c, p) ==
  LET v == GammaDraw(c, p).v
  IN FDiv(FMul(d, FMul(FMul(v, v), v)), r)
GammaAcceptedAt(d, c, p) ==
  LET g == GammaDraw(c, p)
      v3 == FMul(FMul(g.v, g.v), g.v)
      x2 == FMul(g.x, g.x)
      u == Rand(g.nxt)
  IN /\ ~FLe(g.v, 0)
     /\ \/ FLt(u, FSub(Scale, FMul(3, FMul(x2, x2))))
        \/ FLt(FLn(u), FAdd(FMul(50, x2), FMul(d, FAdd(FSub(Scale, v3), FLn(v3)))))

\* randomBetaSafe returned the first accepted draw of at most maxIterations
\* iterations, or the mean a / (a + b) after maxIterations rejections
BetaAcceptedOrMean ==
  LET a == FMax(10, args.params[1])
      b == FMax(10, args.params[2])
      iterations == 0..(maxIterations - 1)
  IN \/ \E iter \in iterations :
          /\ BetaAccepted(a, b, args.k, iter)
          /\ \A j \in 0..(iter - 1) : ~BetaAccepted(a, b, args.k, j)
          /\ ret.val = FDiv(BetaX(a, args.k, iter),
                            FAdd(BetaX(a, args.k, iter), BetaY(b, args.k, iter)))
          /\ ret.nxt = args.k + 2 * (iter + 1)
     \/ /\ \A iter \in iterations : ~BetaAccepted(a, b, args.k, iter)
        /\ ret.val = FDiv(a, FAdd(a, b))
        /\ ret.nxt = args.k + 2 * maxIterations

\* randomGammaSafe returned an accepted draw (times u^(1/shape) on the
\* shape < 1 path), or the mean shape / rate when no iteration accepts; it
\* made at most maxIterations iterations of at most 10 normal draws and one
\* uniform draw each
GammaAcceptedOrMean ==
  LET s == FMax(10, args.params[1])
      r == FMax(10, args.params[2])
      boost == FLt(s, Scale)
      s1 == IF boost THEN FAdd(s, Scale) ELSE s
      d == FSub(s1, 33)
      c == FDiv(Scale, FSqrt(FMul(9 * Scale, d)))
      positions == {p \in 0..(Len(seed) - 1) : GammaAcceptedAt(d, c, p)}
      Boosted(v, p) == IF boost THEN FMul(v, FPow(Rand(p + 3), FDiv(Scale, s))) ELSE v
  IN /\ ret.nxt - args.k <= maxIterations * 21 + 1
     /\ \/ \E p \in positions : ret.val = Boosted(GammaValueAt(r, d, c, p), p)
        \/ ret.val = FDiv(s, r)
     /\ positions = {} => ret.val = FDiv(s, r)

\* C24: every call of randomBetaSafe and of randomGammaSafe (the shape < 1
\* path included) ends after at most 100 rejection iterations and returns
\* either an accepted draw or, when all 100 iterations reject, the mean of
\* the distribution sampled: alpha / (alpha + beta), respectively
\* shape / rate.
C24_AcceptedDrawOrMean ==
  pc = "returned" =>
    /\ args.fn = "randomBetaSafe" => BetaAcceptedOrMean
    /\ args.fn = "randomGammaSafe" => GammaAcceptedOrMean

\* sampling from dist raises an exception: the switch reads dist.type, which
\* raises a TypeError when the node has no distribution; the samplers of
\* every variant return a number for every parameter
Throws(dist) == dist = NoDist

\* C25: when an exception is raised while sampling, sampleFromDistribution
\* returns a vector of length n whose entries all are the analytic mean of
\* the distribution, which is 0 when that mean is undefined, as it is
\* for a missing distribution.
C25_FailureReturnsMeanVector ==
  pc = "returned" /\ args.fn = "sampleFromDistribution" /\ Throws(args.dist)
  => /\ Len(ret.vec) = args.n
     /\ \A i \in 1..args.n : ret.vec[i] = expectedValue(args.dist)
     /\ ret.nxt = args.k

\* sampling MaxSampleCount values of a missing distribution has raised and
\* has returned that many zeros
C25_Witness ==
  /\ pc = "returned"
  /\ args.fn = "sampleFromDistribution"
  /\ args.dist = NoDist
  /\ args.n = MaxSampleCount
  /\ ret.vec = [i \in 1..MaxSampleCount |-> 0]

\* ------------------------------------------------------------------------
\* distributions.ts: samplesToKDE called on its own on a sample vector
\* ------------------------------------------------------------------------
MaxVectorLen == 3
KdeSampleValues == {0, 100, 120, 500, NaN, Inf}
KdeVectors == UNION {[1..len -> KdeSampleValues] : len \in 0..MaxVectorLen}

InitKde ==
  /\ args \in [samples : KdeVectors]
  /\ ret = Undef
  /\ pc = "called"
  /\ raw = NoModel
  /\ model = NoModel
  /\ interventions = EmptyMap
  /\ sampleCount = 1
  /\ seed = [i \in 1..SeedLen |-> 0]
  /\ rngPos = 0
  /\ run = 0
  /\ sorted = <<>>
  /\ idx = 0
  /\ samples = EmptyMap
  /\ baseSamples = EmptyMap
  /\ rawSamples = EmptyMap
  /\ reads = EmptyMap
  /\ produced = EmptyMap
  /\ distributions = EmptyMap
  /\ startPos = EmptyMap
  /\ results = EmptyMap
  /\ nodeSamples = EmptyMap
  /\ nodeDistributions = EmptyMap
  /\ analysis = EmptyMap
  /\ testResults = <<>>
  /\ InitialUi
  /\ NoGeneration

\* samplesToKDE(samples)
SamplesToKDE ==
  /\ pc = "called"
  /\ ret' = samplesToKDE(args.samples)
  /\ pc' = "returned"
  /\ UNCHANGED <<args, ui, generation, raw, model, interventions, sampleCount, seed, rngPos,
                 run, sorted, idx, samples, baseSamples, rawSamples, reads, produced,
                 distributions, startPos, results, nodeSamples, nodeDistributions, analysis,
                 testResults>>

NextKde == SamplesToKDE

SpecKde == InitKde /\ [][NextKde]_vars

\* the finite samples of the call and their empirical standard deviation
FiniteSamples == SelectSeq(args.samples, IsFinite)
EmpiricalStdDev == FSqrt(VarianceOf(FiniteSamples))

\* C26 (as stated): for every sample vector with at least one finite value,
\* the stdDev of the summary is max(empirical standard deviation of the
\* finite samples, 1), and so is never below 1.
C26_StdDevFlooredAtOne ==
  pc = "returned" /\ Len(FiniteSamples) > 0
  => ret.stdDev = FMax(EmpiricalStdDev, Scale) /\ ret.stdDev >= Scale

\* C26 (amended): for every sample vector with at least one finite value,
\* the stdDev of the summary is the empirical standard deviation of the
\* finite samples when that is not 0, and 1 when it is 0; it is never 0,
\* and it is below 1 whenever the empirical standard deviation is.
C26_StdDevNonZero ==
  pc = "returned" /\ Len(FiniteSamples) > 0
  => /\ EmpiricalStdDev # 0 => ret.stdDev = EmpiricalStdDev
     /\ EmpiricalStdDev = 0 => ret.stdDev = Scale
     /\ ret.stdDev > 0

\* the summary of the samples 1.0 and 1.2 (and a NaN, which is discarded)
\* has stdDev 0.1
C26_Witness ==
  /\ pc = "returned"
  /\ args.samples = <<100, NaN, 120>>
  /\ ret.stdDev = 10

\* ------------------------------------------------------------------------
\* The query form and the generate endpoint: components/QueryInput.tsx
\* (handleSubmit), app/api/generate/route.ts (POST) and llm.ts
\* (validateQuery, generateCausalModel).  The language model is outside the
\* program: what validateQuery and generateCausalModel return for a request
\* is chosen freely among the outcomes their code can produce.
\* ------------------------------------------------------------------------
undefined == "<undefined>"
\* the texts of the query field; a body of another HTTP client may also lack
\* the query or carry a number
Queries == {"", " ", "rates"}
NonStrings == {undefined, "<number>"}
Bodies == [query : Queries \cup NonStrings, skipValidation : BOOLEAN, from : {"other"}]
\* query.trim()
Trim(q) == IF q = " " THEN "" ELSE q

\* what validateQuery returns: the QueryValidation the language model wrote,
\* or { isValid: true, ... } from its catch block
ValidationResults ==
  [isValid : BOOLEAN, feedback : {"too vague"}, suggestedQuery : {undefined, "rates and jobs"}]
  \cup {[isValid |-> TRUE, feedback |-> "Validation skipped due to error",
         suggestedQuery |-> undefined]}
\* what generateCausalModel does: it returns a model or throws
GeneratedModels == {m \in StoreModels : Len(m.nodes) = 2 /\ m.edges[1].effect.type = "linear"}
Generations ==
  {[ok |-> TRUE, model |-> m, message |-> ""] : m \in GeneratedModels}
  \cup {[ok |-> FALSE, model |-> NoModel, message |-> "Invalid model structure"]}

\* NextResponse.json(body, { status }): keys are the keys of the body
Json(status, keys, err, validated, m) ==
  [status |-> status, keys |-> keys, error |-> err, validation |-> validated, model |-> m]
NoValidation == [isValid |-> TRUE, feedback |-> "", suggestedQuery |-> undefined]

\* an endpoint that does not validate the query
PostUnvalidated(body, key, validated, generated) ==
  IF body.query \in NonStrings \/ body.query = ""
  THEN [response |-> Json(400, {"error"}, "Query is required", NoValidation, NoModel),
        calls |-> <<>>]
  ELSE IF key = undefined \/ key = ""
  THEN [response |-> Json(500, {"error"}, "GEMINI_API_KEY not configured", NoValidation,
                          NoModel),
        calls |-> <<>>]
  ELSE [response |-> IF generated.ok
                     THEN Json(200, {"model"}, "", NoValidation, generated.model)
                     ELSE Json(500, {"error"}, generated.message, NoValidation, NoModel),
        calls |-> <<[fn |-> "generateCausalModel", isValid |-> generated.ok]>>]

\* POST(request): the response, and the calls made to llm.ts with what they
\* returned (isValid of validateQuery; whether generateCausalModel returned)
POST(body, key, validated, generated) ==
  IF body.query \in NonStrings \/ body.query = ""
  THEN [response |-> Json(400, {"error"}, "Query is required", NoValidation, NoModel),
        calls |-> <<>>]
  ELSE IF key = undefined \/ key = ""
  THEN [response |-> Json(500, {"error"}, "GEMINI_API_KEY not configured", NoValidation,
                          NoModel),
        calls |-> <<>>]
  ELSE IF ~body.skipValidation /\ ~validated.isValid
  THEN [response |-> Json(200, {"validation"}, "",
                          [validated EXCEPT !.isValid = FALSE], NoModel),
        calls |-> <<[fn |-> "validateQuery", isValid |-> validated.isValid]>>]
  ELSE [response |-> IF generated.ok
                     THEN Json(200, {"model"}, "", NoValidation, generated.model)
                     ELSE Json(500, {"error"}, generated.message, NoValidation, NoModel),
        calls |-> (IF body.skipValidation THEN <<>>
                   ELSE <<[fn |-> "validateQuery", isValid |-> validated.isValid]>>)
                  \o <<[fn |-> "generateCausalModel", isValid |-> generated.ok]>>]

InitGenerate ==
  /\ query = ""
  /\ isLoading = FALSE
  /\ validation = <<>>
  /\ apiKey \in {undefined, "key"}
  /\ request = <<>>
  /\ response = <<>>
  /\ calls = <<>>
  /\ InitialUi
  /\ NoCall
  /\ model = NoModel
  /\ interventions = EmptyMap
  /\ nodeSamples = EmptyMap
  /\ nodeDistributions = EmptyMap
  /\ sampleCount = 1
  /\ seed = [i \in 1..SeedLen |-> 30]
  /\ rngPos = 0
  /\ pc = "form"
  /\ raw = NoModel
  /\ run = 0
  /\ sorted = <<>>
  /\ idx = 0
  /\ samples = EmptyMap
  /\ baseSamples = EmptyMap
  /\ rawSamples = EmptyMap
  /\ reads = EmptyMap
  /\ produced = EmptyMap
  /\ distributions = EmptyMap
  /\ startPos = EmptyMap
  /\ results = EmptyMap
  /\ analysis = EmptyMap
  /\ testResults = <<>>

\* what no action of the form or of the endpoint changes
GenerateFrame ==
  <<call, selectedNodeId, selectedEdgeId, apiKey, interventions, sampleCount, seed, pc, raw,
    run, sorted, idx, samples, baseSamples, rawSamples, reads, produced, distributions,
    startPos, results, analysis, testResults>>
computed == <<nodeSamples, nodeDistributions, rngPos>>

\* onChange of the input: setQuery(e.target.value); setValidation(null)
TypeQuery ==
  /\ ~isLoading
  /\ \E q \in Queries : query' = q
  /\ validation' = <<>>
  /\ UNCHANGED <<GenerateFrame, computed, model, error, isLoading, request, response, calls>>

\* useSuggestedQuery
useSuggestedQuery ==
  /\ validation # <<>>
  /\ validation[1].suggestedQuery # undefined
  /\ query' = validation[1].suggestedQuery
  /\ validation' = <<>>
  /\ UNCHANGED <<GenerateFrame, computed, model, error, isLoading, request, response, calls>>

\* handleSubmit up to the fetch; "Generate anyway", which passes
\* skipValidation = true, is rendered with the validation feedback
handleSubmit ==
  \E skipValidation \in BOOLEAN :
    /\ skipValidation => validation # <<>>
    /\ Trim(query) # "" /\ ~isLoading
    /\ request = <<>>
    /\ isLoading' = TRUE
    /\ error' = null
    /\ validation' = <<>>
    /\ request' = <<[query |-> query, skipValidation |-> skipValidation, from |-> "form"]>>
    /\ UNCHANGED <<GenerateFrame, computed, model, query, response, calls>>

\* another HTTP client posts a body to /api/generate
PostFromElsewhere ==
  /\ request = <<>>
  /\ \E body \in Bodies : request' = <<body>>
  /\ UNCHANGED <<GenerateFrame, computed, model, error, query, isLoading, validation,
                 response, calls>>

\* the endpoint handles the request in flight
Endpoint ==
  /\ request # <<>> /\ response = <<>>
  /\ \E validated \in ValidationResults, generated \in Generations :
       \E out \in {POST(request[1], apiKey, validated, generated)} :
         /\ response' = <<out.response>>
         /\ calls' = out.calls
  /\ UNCHANGED <<GenerateFrame, computed, model, error, query, isLoading, validation,
                 request>>

\* handleSubmit from `const data = await response.json()` on
ReceiveResponse ==
  /\ response # <<>> /\ request[1].from = "form"
  /\ \E data \in {response[1]} :
       IF data.status # 200
       THEN \* throw new Error(data.error || ...); catch: setError(error.message)
            /\ error' = data.error
            /\ UNCHANGED <<model, validation, computed>>
       ELSE IF "validation" \in data.keys /\ ~data.validation.isValid
       THEN /\ validation' = <<[feedback |-> data.validation.feedback,
                                suggestedQuery |-> data.validation.suggestedQuery]>>
            /\ UNCHANGED <<model, error, computed>>
       ELSE \* setModel(data.model)
            /\ model' = data.model
            /\ error' = null
            /\ \E c \in {Recompute(data.model, interventions, sampleCount, rngPos,
                                   [nodeSamples |-> nodeSamples,
                                    nodeDistributions |-> nodeDistributions,
                                    rngPos |-> rngPos])} :
                 /\ nodeSamples' = c.nodeSamples
                 /\ nodeDistributions' = c.nodeDistributions
                 /\ rngPos' = c.rngPos
            /\ UNCHANGED validation
  /\ isLoading' = FALSE
  /\ request' = <<>>
  /\ response' = <<>>
  /\ UNCHANGED <<GenerateFrame, query, calls>>

\* the other HTTP client receives its response
ReceiveElsewhere ==
  /\ response # <<>> /\ request[1].from = "other"
  /\ request' = <<>>
  /\ response' = <<>>
  /\ UNCHANGED <<GenerateFrame, computed, model, error, query, isLoading, validation, calls>>

NextGenerate ==
  \/ TypeQuery
  \/ useSuggestedQuery
  \/ handleSubmit
  \/ PostFromElsewhere
  \/ Endpoint
  \/ ReceiveResponse
  \/ ReceiveElsewhere

SpecGenerate == InitGenerate /\ [][NextGenerate]_vars

\* the endpoint has answered: it called generateCausalModel only for a
\* non-empty string query, with the API key configured and, unless
\* skipValidation is set, after validateQuery returned isValid = true; when
\* validateQuery returned isValid = false the response carries the
\* validation feedback and no model
EndpointChecked ==
  response # <<>> =>
    LET body == request[1]
        data == response[1]
        generate == {i \in 1..Len(calls) : calls[i].fn = "generateCausalModel"}
        rejected == {i \in 1..Len(calls) : calls[i].fn = "validateQuery" /\ ~calls[i].isValid}
    IN /\ generate # {} =>
            /\ body.query \notin NonStrings /\ body.query # ""
            /\ apiKey # undefined
            /\ ~body.skipValidation =>
                 \A i \in generate :
                   \E j \in 1..(i - 1) : calls[j].fn = "validateQuery" /\ calls[j].isValid
       /\ rejected # {} =>
            /\ generate = {}
            /\ data.keys = {"validation"}
            /\ data.validation.feedback = "too vague"
            /\ ~data.validation.isValid
            /\ data.model = NoModel
\* the form receives validation feedback: the model and the error of the
\* store stay as they are
FeedbackLeavesStore ==
  /\ response # <<>> /\ response' = <<>>
  /\ request[1].from = "form"
  /\ "validation" \in response[1].keys
  => model' = model /\ error' = error

\* C27: the generate endpoint calls generateCausalModel only after it has
\* checked that the query is a non-empty string and that the API key is
\* configured and, unless skipValidation is set, only after validateQuery
\* returned isValid = true; when validateQuery returns isValid = false the
\* response carries the validation feedback and no model, and the client then
\* leaves the model and the error of the store unchanged.
C27_GenerateOnlyAfterChecks == []EndpointChecked /\ [][FeedbackLeavesStore]_vars

\* the form shows the feedback of a rejected query while the store still
\* holds the model of an earlier query
C27_Witness ==
  /\ validation # <<>>
  /\ ~isLoading
  /\ model # NoModel
  /\ error = null
  /\ calls = <<[fn |-> "validateQuery", isValid |-> FALSE]>>

\* C28: ensureConnectedGraph never creates a directed cycle: when the edges
\* of the document are acyclic, so are the edges of the model it returns.
C28_ConnectingKeepsAcyclic ==
  pc = "connected" /\ Acyclic(raw) => Acyclic(model)

\* ------------------------------------------------------------------------
\* graphStore.ts: the store with its selection (selectNode, selectEdge),
\* on one stream of Math.random
\* ------------------------------------------------------------------------
StoreSelectableNodes == {null, "a", "c"}
StoreSelectableEdges == {null, "a->b"}

InitSelection ==
  /\ model = NoModel
  /\ interventions = EmptyMap
  /\ nodeSamples = EmptyMap
  /\ nodeDistributions = EmptyMap
  /\ sampleCount = MaxSampleCount
  /\ seed = [i \in 1..SeedLen |-> 30]
  /\ rngPos = 0
  /\ pc = "store"
  /\ raw = NoModel
  /\ run = 0
  /\ sorted = <<>>
  /\ idx = 0
  /\ samples = EmptyMap
  /\ baseSamples = EmptyMap
  /\ rawSamples = EmptyMap
  /\ reads = EmptyMap
  /\ produced = EmptyMap
  /\ distributions = EmptyMap
  /\ startPos = EmptyMap
  /\ results = EmptyMap
  /\ analysis = EmptyMap
  /\ testResults = <<>>
  /\ NoCall
  /\ InitialUi
  /\ NoGeneration

\* what selectNode and selectEdge leave alone
SelectionFrame ==
  <<call, generation, error, raw, model, interventions, sampleCount, seed, rngPos, pc, run,
    sorted, idx, samples, baseSamples, rawSamples, reads, produced, distributions, startPos,
    results, nodeSamples, nodeDistributions, analysis, testResults>>

\* a selectNode that keeps the selected edge
selectNodeOnly ==
  /\ \E nodeId \in StoreSelectableNodes : selectedNodeId' = nodeId
  /\ UNCHANGED <<selectedEdgeId, SelectionFrame>>

\* set({ selectedNodeId: nodeId, selectedEdgeId: null })
selectNode ==
  /\ \E nodeId \in StoreSelectableNodes : selectedNodeId' = nodeId
  /\ selectedEdgeId' = null
  /\ UNCHANGED SelectionFrame

\* set({ selectedEdgeId: edgeId, selectedNodeId: null })
selectEdge ==
  /\ \E edgeId \in StoreSelectableEdges : selectedEdgeId' = edgeId
  /\ selectedNodeId' = null
  /\ UNCHANGED SelectionFrame

NextSelection ==
  \/ selectNode
  \/ selectEdge
  \/ setModel
  \/ setIntervention
  \/ clearIntervention
  \/ clearAllInterventions
  \/ setSampleCount
  \/ updateEdgeEffect

SpecSelection == InitSelection /\ [][NextSelection]_vars

\* C29: in the graph store every key of the interventions map is the id of
\* a node of the current model, after any sequence of actions; setModel
\* leaves no intervention on a node that the new model does not contain.
C29_InterventionsOnModelNodes ==
  \A id \in DOMAIN interventions : model # NoModel /\ id \in NodeIds(model)

\* C30: in the graph store selectedNodeId and selectedEdgeId are never both
\* non-null, after any sequence of selectNode, selectEdge and the other
\* actions of the store.
C30_AtMostOneSelected == selectedNodeId = null \/ selectedEdgeId = null

\* an edge is selected in a store that holds a model and an intervention,
\* and no node is
C30_Witness ==
  /\ selectedEdgeId = "a->b"
  /\ selectedNodeId = null
  /\ model # NoModel
  /\ "a" \in DOMAIN interventions
====
